---- MODULE Spec2Model ----
(***************************************************************************)
(* Model of the pricesmart statistics / recommendation engine              *)
(* (backend/app/mcp_servers/analytics/server.py) and of the product        *)
(* matching agent (backend/app/agents/product_matching.py).                *)
(*                                                                         *)
(* Numbers.  Input prices and costs are amounts with two decimals and are  *)
(* held as integers in cents.  Every derived amount (a percentile with     *)
(* linear interpolation at an integer percentile, cost * (1 + m/100) with  *)
(* an integer margin m) is then an exact multiple of 1/100 cent and is     *)
(* held as an integer number of such sub-cents.  round(x, 2) maps          *)
(* sub-cents back to cents.  The arithmetic is exact: binary floating      *)
(* point error of the Python floats is outside the model.                  *)
(***************************************************************************)
EXTENDS Integers, Sequences, FiniteSets, TLC

VARIABLES
    now,        \* the wall clock read by datetime.utcnow()
    input,      \* SpecStats: the price list both calculate_stats calls receive
    first,      \* SpecStats: result of the first calculate_stats(input)
    second,     \* SpecStats: result of the second calculate_stats(input)
    out,        \* the last call made on its own [op, args..., result]
    pc,                 \* where the running agent stands (the node to run next)
    state,              \* the state dict handed from node to node
    normalized_offers,  \* classify_products: the offers kept by normalization
    target_embedding,   \* classify_products: the target vector ([] on failure)
    semaphore,          \* classify_products: value of asyncio.Semaphore(5)
    tasks,              \* classify_products: one sem_task per normalized offer
    embed_calls,        \* the texts passed to embeddings.aembed_query, in order
    result              \* what the agent returned, or the exception it raised

analyticsVars == <<now, input, first, second, out>>

matchVars == <<pc, state, normalized_offers, target_embedding, semaphore, tasks,
              embed_calls, result>>

vars == <<analyticsVars, matchVars>>

(***************************************************************************)
(* Bounds of the model and the input sets the calls draw from.             *)
(***************************************************************************)
MaxPrices == 3
MaxClock == 1

PriceValues == {100, 110, 500}
Costs == {0, 101, 250}
Margins == {0, 33, 67}
Percentiles == {-10, 0, 10, 75, 100, 110}

None == <<>>
Some(x) == <<x>>

RECURSIVE SeqsUpTo(_, _)
SeqsUpTo(S, n) ==
    IF n = 0 THEN {<<>>}
    ELSE LET shorter == SeqsUpTo(S, n - 1)
         IN  shorter \cup {Append(s, x) : s \in {t \in shorter : Len(t) = n - 1}, x \in S}

PriceLists == SeqsUpTo(PriceValues, MaxPrices)

\* The amounts of SpecSummary.
SummaryValues == {100, 140, 500}

SummaryLists == SeqsUpTo(SummaryValues, MaxPrices)

\* n prices that alternate between a and b, starting with a.
RECURSIVE Alternating(_, _, _)
Alternating(a, b, n) ==
    IF n = 0 THEN <<>>
    ELSE Append(Alternating(a, b, n - 1), IF n % 2 = 1 THEN a ELSE b)

\* Lists on both sides of the sample sizes 15 and 30 the confidence label
\* looks at, with a coefficient of variation of about 0.05, 0.4 and 0.67.
LongPriceLists ==
    {Alternating(100, 110, 14), Alternating(100, 110, 15), Alternating(100, 110, 29),
     Alternating(100, 110, 30), Alternating(30, 70, 15), Alternating(30, 70, 30),
     Alternating(10, 50, 15), Alternating(10, 50, 30)}

\* Lists that lose values to the outlier filter: the list of
\* test_calculate_stats_with_outliers, a list whose upper quartile is pulled
\* by its last value, and a list with Q1 = Q3 and a value on either side.
OutlierPriceLists ==
    {<<100, 110, 120, 130, 140, 1000>>, <<100, 100, 100, 500>>,
     <<10, 100, 100, 100, 500>>}

NotCalled == [op |-> "none"]

(***************************************************************************)
(* numpy helpers, on integer cents -> sub-cents.                           *)
(***************************************************************************)
Sorted(prices) == SortSeq(prices, LAMBDA a, b : a < b)

RECURSIVE SumSeq(_)
SumSeq(s) == IF s = <<>> THEN 0 ELSE Head(s) + SumSeq(Tail(s))

RECURSIVE SumSquares(_)
SumSquares(s) == IF s = <<>> THEN 0 ELSE Head(s) * Head(s) + SumSquares(Tail(s))

Raised(kind) == [raised |-> kind]

IsRaised(r) == "raised" \in DOMAIN r

\* np.percentile(a, p), default linear interpolation, in sub-cents.  The virtual
\* index is (n-1)*p/100; its integer part selects the lower neighbour and its
\* fraction r/100 interpolates to the upper one.  numpy raises ValueError for
\* p outside [0, 100].
PercentileInRange(p) == 0 <= p /\ p <= 100

\* A variant that interpolates between neighbours of the list as given.
np_percentile_mut_unsorted(prices, p) ==
    IF ~PercentileInRange(p) THEN Raised("ValueError")
    ELSE IF ((Len(prices) - 1) * p) % 100 = 0
    THEN 100 * prices[((Len(prices) - 1) * p) \div 100 + 1]
    ELSE 100 * prices[((Len(prices) - 1) * p) \div 100 + 1]
             + (((Len(prices) - 1) * p) % 100)
                   * (prices[((Len(prices) - 1) * p) \div 100 + 2]
                          - prices[((Len(prices) - 1) * p) \div 100 + 1])

np_percentile(prices, p) ==
    IF ~PercentileInRange(p) THEN Raised("ValueError")
    ELSE LET s  == Sorted(prices)
             k  == (Len(s) - 1) * p
             lo == k \div 100
             r  == k % 100
         IN  IF r = 0 THEN 100 * s[lo + 1]
             ELSE 100 * s[lo + 1] + r * (s[lo + 2] - s[lo + 1])

\* round(num/den) to the nearest integer, ties to even (Python's round()).
RoundHalfEven(num, den) ==
    LET q == num \div den
        r == num % den
    IN  IF 2 * r < den THEN q
        ELSE IF 2 * r > den THEN q + 1
        ELSE IF q % 2 = 0 THEN q ELSE q + 1

\* A variant that truncates instead of rounding.
round2_mut_floor(x) == x \div 100

\* round(x, 2) of an amount x given in sub-cents: the result is in cents.

round2(x) == RoundHalfEven(x, 100)

\* A number that may be nan: numpy returns nan (with a warning, no exception)
\* for the mean, median and std of an empty array.
NaN == [nan |-> TRUE]

Frac(num, den) == [num |-> num, den |-> den]

\* np.mean as the exact fraction sum/n.
np_mean(a) == IF a = <<>> THEN NaN ELSE Frac(SumSeq(a), Len(a))

\* np.var as the exact fraction (n*sum(x^2) - sum(x)^2) / n^2.
np_var(a) ==
    IF a = <<>> THEN NaN
    ELSE Frac(Len(a) * SumSquares(a) - SumSeq(a) * SumSeq(a), Len(a) * Len(a))

(***************************************************************************)
(* Binary64 rounding of the mean.  np.std subtracts the floating-point     *)
(* mean from every entry, so whether it returns exactly 0 depends on the   *)
(* rounding of sum / n.  A non-negative double is held exactly, as an       *)
(* integer number of units of 2^-60 written in limbs to base 2^14, least    *)
(* significant limb first (every amount from 0.01 to 2^7 has an ulp of at   *)
(* least 2^-59 and at most 67 bits in these units).                         *)
(***************************************************************************)
LimbBits == 14

LimbBase == 16384

MantissaBits == 53

RECURSIVE Pow2(_)
Pow2(d) == IF d = 0 THEN 1 ELSE 2 * Pow2(d - 1)

RECURSIVE BigMulSmall(_, _, _)
BigMulSmall(a, k, carry) ==
    IF a = <<>>
    THEN IF carry = 0 THEN <<>> ELSE <<carry % LimbBase>> \o BigMulSmall(<<>>, k, carry \div LimbBase)
    ELSE <<(Head(a) * k + carry) % LimbBase>>
             \o BigMulSmall(Tail(a), k, (Head(a) * k + carry) \div LimbBase)

RECURSIVE BigAdd(_, _, _)
BigAdd(a, b, carry) ==
    IF a = <<>> /\ b = <<>>
    THEN IF carry = 0 THEN <<>> ELSE <<carry>>
    ELSE IF a = <<>> THEN BigAdd(<<0>>, b, carry)
    ELSE IF b = <<>> THEN BigAdd(a, <<0>>, carry)
    ELSE <<(Head(a) + Head(b) + carry) % LimbBase>>
             \o BigAdd(Tail(a), Tail(b), (Head(a) + Head(b) + carry) \div LimbBase)

\* Quotient limbs 1..i and remainder of a (limbs 1..i, with rem carried in from
\* the limbs above) divided by k.
RECURSIVE BigDivFrom(_, _, _, _)
BigDivFrom(a, k, i, rem) ==
    IF i = 0 THEN [q |-> <<>>, r |-> rem]
    ELSE [q |-> Append(BigDivFrom(a, k, i - 1, (rem * LimbBase + a[i]) % k).q,
                       (rem * LimbBase + a[i]) \div k),
          r |-> BigDivFrom(a, k, i - 1, (rem * LimbBase + a[i]) % k).r]

RECURSIVE BigTrim(_)
BigTrim(a) ==
    IF a # <<>> /\ a[Len(a)] = 0 THEN BigTrim(SubSeq(a, 1, Len(a) - 1)) ELSE a

BigDivSmall(a, k) ==
    [q |-> BigTrim(BigDivFrom(a, k, Len(a), 0).q), r |-> BigDivFrom(a, k, Len(a), 0).r]

RECURSIVE SmallBitLen(_)
SmallBitLen(v) == IF v = 0 THEN 0 ELSE 1 + SmallBitLen(v \div 2)

BigBitLen(a) ==
    IF a = <<>> THEN 0 ELSE LimbBits * (Len(a) - 1) + SmallBitLen(a[Len(a)])

\* Round to nearest, ties to even, on the d lowest bits of n; sticky says that
\* the exact value lies strictly above n.
RoundBits(n, d, sticky, parts) ==
    IF \/ parts.r > Pow2(d - 1)
       \/ parts.r = Pow2(d - 1) /\ (sticky \/ (parts.q # <<>> /\ parts.q[1] % 2 = 1))
    THEN BigMulSmall(BigAdd(parts.q, <<1>>, 0), Pow2(d), 0)
    ELSE BigMulSmall(parts.q, Pow2(d), 0)

RoundToDouble(n, sticky) ==
    IF BigBitLen(n) <= MantissaBits THEN n
    ELSE RoundBits(n, BigBitLen(n) - MantissaBits, sticky,
                   BigDivSmall(n, Pow2(BigBitLen(n) - MantissaBits)))

DivideRounded(parts) == RoundToDouble(parts.q, parts.r # 0)

\* 2^60 units make 1.0.
BigOne == <<0, 0, 0, 0, 16>>

\* The double nearest to cents / 100: what the float literal of a two-decimal
\* amount is.
float64(cents) == DivideRounded(BigDivSmall(BigMulSmall(BigOne, cents, 0), 100))

\* np.add.reduce on fewer than 8 doubles: one rounded addition after another.
RECURSIVE np_add_reduce(_, _)
np_add_reduce(a, acc) ==
    IF a = <<>> THEN acc
    ELSE np_add_reduce(Tail(a), RoundToDouble(BigAdd(acc, float64(Head(a)), 0), FALSE))

\* umr_sum(arr) / n in binary64.
float64_mean(a) == DivideRounded(BigDivSmall(np_add_reduce(a, <<>>), Len(a)))

EqualsAll(a, x) == \A i \in 1..Len(a) : float64(a[i]) = x

\* np.std returns exactly 0.0 iff every entry equals the floating-point mean
\* (a non-zero deviation of these magnitudes neither squares nor averages to 0).
\* Entries that differ cannot all equal it.
StdIsExactlyZero(a) ==
    /\ a # <<>>
    /\ \A i \in 1..Len(a) : a[i] = a[1]
    /\ EqualsAll(a, float64_mean(a))

\* np.std is the square root of np.var; it is held by its exact square, and
\* by whether the floating-point result is 0.0.
np_std(a) == [sqrt_of |-> np_var(a), zero |-> StdIsExactlyZero(a)]

\* np.median (sub-cents); nan when the array is empty.
np_median(a) == IF a = <<>> THEN NaN ELSE [v |-> np_percentile(a, 50)]

\* cv = std / mean if mean > 0 else 0, held by its square
\* var / mean^2 = (n*sum(x^2) - sum(x)^2) / sum(x)^2.
CvSquared(a) ==
    IF SumSeq(a) > 0
    THEN Frac(Len(a) * SumSquares(a) - SumSeq(a) * SumSeq(a), SumSeq(a) * SumSeq(a))
    ELSE Frac(0, 1)

\* The mask with the upper bound alone.
RemoveOutliers_mut_upper_only(prices) ==
    LET q1  == np_percentile(prices, 25)
        q3  == np_percentile(prices, 75)
        iqr == q3 - q1
    IN  SelectSeq(prices, LAMBDA x : 2 * 100 * x <= 2 * q3 + 3 * iqr)

\* prices_array[(prices_array >= lower_bound) & (prices_array <= upper_bound)]
\* with lower_bound = q1 - 1.5*iqr and upper_bound = q3 + 1.5*iqr; both sides
\* are doubled to stay in integers.
RemoveOutliers(prices) ==
    LET q1  == np_percentile(prices, 25)
        q3  == np_percentile(prices, 75)
        iqr == q3 - q1
    IN  SelectSeq(prices, LAMBDA x : /\ 2 * 100 * x >= 2 * q1 - 3 * iqr
                                     /\ 2 * 100 * x <= 2 * q3 + 3 * iqr)

PercentileTable == {10, 20, 25, 30, 40, 50, 60, 70, 75, 80, 90}

(***************************************************************************)
(* AnalyticsEngine.calculate_stats.  t is the clock value utcnow() returns. *)
(***************************************************************************)
\* Everything calculate_stats derives from a non-empty list.
PriceStatistics(prices) ==
    LET clean == RemoveOutliers(prices)
        s     == Sorted(prices)
    IN  [success           |-> TRUE,
         sample_size       |-> Len(prices),
         sample_size_clean |-> Len(clean),
         outliers_removed  |-> Len(prices) - Len(clean),
         min               |-> 100 * s[1],
         max               |-> 100 * s[Len(s)],
         mean              |-> np_mean(prices),
         median            |-> np_percentile(prices, 50),
         std_dev           |-> np_std(prices),
         variance          |-> np_var(prices),
         cv                |-> [sqrt_of |-> CvSquared(prices)],
         q1                |-> np_percentile(prices, 25),
         q3                |-> np_percentile(prices, 75),
         iqr               |-> np_percentile(prices, 75) - np_percentile(prices, 25),
         percentiles       |-> [p \in PercentileTable |-> np_percentile(prices, p)],
         clean_stats       |-> [mean    |-> np_mean(clean),
                                median  |-> np_median(clean),
                                std_dev |-> np_std(clean)]]

\* The statistics of every list a call of the model receives, computed once.
PriceStatisticsOf ==
    [prices \in (PriceLists \cup SummaryLists \cup LongPriceLists
                    \cup OutlierPriceLists) \ {<<>>} |->
        PriceStatistics(prices)]

\* A variant that also stamps the call time into clean_stats.
calculate_stats_mut_stamped(prices, t) ==
    IF prices = <<>>
    THEN [success |-> FALSE, error |-> "Empty price list", sample_size |-> 0]
    ELSE [PriceStatistics(prices) EXCEPT !.clean_stats = @ @@ [computed_at |-> t]]
         @@ [timestamp |-> t]

calculate_stats(prices, t) ==
    IF prices = <<>>
    THEN [success |-> FALSE, error |-> "Empty price list", sample_size |-> 0]
    ELSE PriceStatisticsOf[prices] @@ [timestamp |-> t]

\* np.sum over a boolean array such as prices_array < value: the number of
\* entries that are true.
np_sum(mask) == Cardinality({i \in DOMAIN mask : mask[i]})

(***************************************************************************)
(* AnalyticsEngine.get_percentile.                                         *)
(***************************************************************************)
\* A variant without the range check: np.percentile then raises.
get_percentile_mut_nocheck(prices, percentile, t) ==
    IF prices = <<>>
    THEN [success |-> FALSE, error |-> "Empty price list", percentile |-> percentile]
    ELSE IF ~PercentileInRange(percentile)
    THEN np_percentile(prices, percentile)
    ELSE [success |-> TRUE, percentile |-> percentile,
          value |-> np_percentile(prices, percentile), timestamp |-> t]

get_percentile(prices, percentile, t) ==
    IF prices = <<>>
    THEN [success |-> FALSE, error |-> "Empty price list", percentile |-> percentile]
    ELSE IF ~(0 <= percentile /\ percentile <= 100)
    THEN [success |-> FALSE, error |-> "Invalid percentile", percentile |-> percentile]
    ELSE LET value == np_percentile(prices, percentile)
             below == np_sum([i \in DOMAIN prices |-> 100 * prices[i] < value])
             above == np_sum([i \in DOMAIN prices |-> 100 * prices[i] > value])
             equal == np_sum([i \in DOMAIN prices |-> 100 * prices[i] = value])
         IN  [success       |-> TRUE,
              percentile    |-> percentile,
              value         |-> value,
              sample_size   |-> Len(prices),
              below_count   |-> below,
              above_count   |-> above,
              equal_count   |-> equal,
              rank_position |-> below + 1,
              timestamp     |-> t]

(***************************************************************************)
(* AnalyticsEngine.generate_recommendation, by parts.                      *)
(***************************************************************************)

\* cost_price * (1 + target_margin_percent / 100), in sub-cents.
min_viable_price(cost_price, target_margin_percent) ==
    cost_price * (100 + target_margin_percent)

\* The branch for an empty competitor list.
NoCompetitorsResult(cost_price, target_margin_percent, t) ==
    [success              |-> TRUE,
     recommended_price    |-> round2(min_viable_price(cost_price, target_margin_percent)),
     cost_price           |-> cost_price,
     margin_percent       |-> target_margin_percent,
     confidence           |-> "low",
     market_position      |-> "unknown",
     competitors_analyzed |-> 0,
     timestamp            |-> t]

\* A variant that looks at the median before the first quartile.
AutoTier_mut_median_first(min_viable, stats_result) ==
    IF min_viable <= stats_result.median
    THEN [target_percentile |-> 50, position |-> "competitive"]
    ELSE IF min_viable <= stats_result.percentiles[25]
    THEN [target_percentile |-> 25, position |-> "budget"]
    ELSE IF min_viable <= stats_result.percentiles[75]
    THEN [target_percentile |-> 75, position |-> "premium"]
    ELSE [target_percentile |-> 90, position |-> "luxury"]

\* target_percentile is None: the tier is chosen from the margin floor.
AutoTier(min_viable, stats_result) ==
    IF min_viable <= stats_result.percentiles[25]
    THEN [target_percentile |-> 25, position |-> "budget"]
    ELSE IF min_viable <= stats_result.median
    THEN [target_percentile |-> 50, position |-> "competitive"]
    ELSE IF min_viable <= stats_result.percentiles[75]
    THEN [target_percentile |-> 75, position |-> "premium"]
    ELSE [target_percentile |-> 90, position |-> "luxury"]

\* A variant whose thresholds are exclusive.
PositionOf_mut_strict(target_percentile) ==
    IF target_percentile < 30 THEN "budget"
    ELSE IF target_percentile < 60 THEN "competitive"
    ELSE IF target_percentile < 80 THEN "premium"
    ELSE "luxury"

\* target_percentile given by the caller: only the label is derived.
PositionOf(target_percentile) ==
    IF target_percentile <= 30 THEN "budget"
    ELSE IF target_percentile <= 60 THEN "competitive"
    ELSE IF target_percentile <= 80 THEN "premium"
    ELSE "luxury"

\* "Ensure minimum margin": if recommended < min_viable_price, take the floor.
EnsureMinimumMargin(recommended, min_viable) ==
    IF recommended < min_viable THEN min_viable ELSE recommended

\* cv < 0.3 and cv < 0.5 on the squared cv (cv >= 0).
CvBelow3Tenth(cv) == 100 * cv.sqrt_of.num < 9 * cv.sqrt_of.den

CvBelowHalf(cv) == 4 * cv.sqrt_of.num < cv.sqrt_of.den

\* A variant that grants "medium" on the spread alone.
ConfidenceOf_mut_nosize(stats_result) ==
    IF stats_result.sample_size >= 30 /\ CvBelow3Tenth(stats_result.cv) THEN "high"
    ELSE IF CvBelowHalf(stats_result.cv) THEN "medium"
    ELSE "low"

ConfidenceOf(stats_result) ==
    IF stats_result.sample_size >= 30 /\ CvBelow3Tenth(stats_result.cv) THEN "high"
    ELSE IF stats_result.sample_size >= 15 /\ CvBelowHalf(stats_result.cv) THEN "medium"
    ELSE "low"

Max(a, b) == IF a >= b THEN a ELSE b

Min(a, b) == IF a <= b THEN a ELSE b

\* current_position, only when current_price is truthy (given and not 0).
CurrentPosition(cost_price, competitor_prices, current_price) ==
    IF current_price = None \/ current_price = Some(0) THEN None
    ELSE LET cp == current_price[1]
         IN  Some([price          |-> cp,
                   percentile     |-> Frac(100 * np_sum([i \in DOMAIN competitor_prices |->
                                                             competitor_prices[i] <= cp]),
                                           Len(competitor_prices)),
                   margin_percent |-> Frac((cp - cost_price) * 100, cost_price)])

generate_recommendation(cost_price, competitor_prices, target_margin_percent, target_percentile, current_price, t) ==
    IF competitor_prices = <<>>
    THEN NoCompetitorsResult(cost_price, target_margin_percent, t)
    ELSE
    LET stats_result == calculate_stats(competitor_prices, t)
        min_viable   == min_viable_price(cost_price, target_margin_percent)
        tier         == IF target_percentile = None
                        THEN AutoTier(min_viable, stats_result)
                        ELSE [target_percentile |-> target_percentile[1],
                              position          |-> PositionOf(target_percentile[1])]
        tp           == tier.target_percentile
        at_target    == np_percentile(competitor_prices, tp)
    IN
    IF ~PercentileInRange(tp) THEN at_target
    ELSE IF cost_price = 0 THEN Raised("ZeroDivisionError")
    ELSE
    LET recommended   == EnsureMinimumMargin(at_target, min_viable)
        \* ((recommended - cost_price) / cost_price) * 100, as a fraction (percent)
        actual_margin == Frac(recommended - 100 * cost_price, cost_price)
        alternatives  == <<np_percentile(competitor_prices, Max(0, tp - 15)),
                           recommended,
                           np_percentile(competitor_prices, Min(100, tp + 15))>>
    IN  [success              |-> TRUE,
         recommended_price    |-> round2(recommended),
         cost_price           |-> cost_price,
         \* round(actual_margin, 2), in hundredths of a percent
         margin_percent       |-> RoundHalfEven(actual_margin.num * 100, actual_margin.den),
         target_percentile    |-> tp,
         confidence           |-> ConfidenceOf(stats_result),
         market_position      |-> tier.position,
         competitors_analyzed |-> stats_result.sample_size,
         price_range          |-> [min    |-> stats_result.min,
                                   max    |-> stats_result.max,
                                   median |-> stats_result.median,
                                   mean   |-> stats_result.mean],
         alternatives         |-> [i \in 1..3 |-> round2(alternatives[i])],
         current_position     |-> CurrentPosition(cost_price, competitor_prices,
                                                  current_price),
         statistics           |-> stats_result,
         timestamp            |-> t]

(***************************************************************************)
(* Actions of the engine.                                                  *)
(***************************************************************************)
\* Time passes before and between calls (nothing reads the clock after the
\* last call of a behaviour).
Tick ==
    /\ now < MaxClock
    /\ second = NotCalled
    /\ out = NotCalled
    /\ now' = now + 1
    /\ UNCHANGED <<input, first, second, out, matchVars>>

\* SpecStats: the same list is handed to calculate_stats twice.
StatsFirst ==
    /\ first = NotCalled
    /\ first' = [op |-> "calculate_stats", result |-> calculate_stats(input, now)]
    /\ UNCHANGED <<now, input, second, out, matchVars>>

StatsSecond ==
    /\ first # NotCalled
    /\ second = NotCalled
    /\ second' = [op |-> "calculate_stats", result |-> calculate_stats(input, now)]
    /\ UNCHANGED <<now, input, first, out, matchVars>>

\* SpecEngine: a behaviour is one call of one operation (the engine keeps no
\* state between calls), on any input of the bounded sets.
CallCalculateStats ==
    /\ out = NotCalled
    /\ \E prices \in PriceLists \cup OutlierPriceLists :
        /\ out' = [op |-> "calculate_stats", prices |-> prices,
                   result |-> calculate_stats(prices, now)]
        /\ UNCHANGED <<now, input, first, second, matchVars>>

CallGetPercentile ==
    /\ out = NotCalled
    /\ \E prices \in PriceLists, p \in Percentiles :
        /\ out' = [op |-> "get_percentile", prices |-> prices, percentile |-> p,
                   result |-> get_percentile(prices, p, now)]
        /\ UNCHANGED <<now, input, first, second, matchVars>>

TargetPercentiles == {None} \cup {Some(p) : p \in {10, 30, 60, 80, 90, 110}}

CurrentPrices == {None, Some(110)}

CallGenerateRecommendation ==
    /\ out = NotCalled
    /\ \E cost \in Costs, prices \in PriceLists \cup LongPriceLists, m \in Margins,
       tp \in TargetPercentiles, cp \in CurrentPrices :
        /\ out' = [op |-> "generate_recommendation", cost_price |-> cost,
                   competitor_prices |-> prices, target_margin_percent |-> m,
                   target_percentile |-> tp, current_price |-> cp,
                   result |-> generate_recommendation(cost, prices, m, tp, cp, now)]
        /\ UNCHANGED <<now, input, first, second, matchVars>>

\* No matching run is in progress while the engine is exercised.
MatchingIdle ==
    /\ pc = "idle"
    /\ state = [target_product |-> "", raw_offers |-> <<>>, reference_price |-> 0,
                classified_offers |-> <<>>, comparable_offers |-> <<>>,
                excluded_count |-> 0, errors |-> <<>>]
    /\ normalized_offers = <<>>
    /\ target_embedding = <<>>
    /\ semaphore = 0
    /\ tasks = <<>>
    /\ embed_calls = <<>>
    /\ result = None

InitStats ==
    /\ now = 0
    /\ input \in PriceLists
    /\ first = NotCalled
    /\ second = NotCalled
    /\ out = NotCalled
    /\ MatchingIdle

NextStats == Tick \/ StatsFirst \/ StatsSecond

SpecStats == InitStats /\ [][NextStats]_vars

InitEngine ==
    /\ now = 0
    /\ input = <<>>
    /\ first = NotCalled
    /\ second = NotCalled
    /\ out = NotCalled
    /\ MatchingIdle

NextEngine == Tick \/ CallCalculateStats \/ CallGetPercentile \/ CallGenerateRecommendation

SpecEngine == InitEngine /\ [][NextEngine]_vars

(***************************************************************************)
(* SpecSummary: one price list is summarised by calculate_stats and asked  *)
(* for two percentiles.  The amounts include 1.40, whose floating-point    *)
(* mean over three entries is not 1.40.                                    *)
(***************************************************************************)
PercentileFirst ==
    \E p \in Percentiles :
        /\ first = NotCalled
        /\ first' = [op |-> "get_percentile", result |-> get_percentile(input, p, now)]
        /\ UNCHANGED <<now, input, second, out, matchVars>>

PercentileSecond ==
    \E p \in Percentiles :
        /\ first # NotCalled
        /\ second = NotCalled
        /\ second' = [op |-> "get_percentile", result |-> get_percentile(input, p, now)]
        /\ UNCHANGED <<now, input, first, out, matchVars>>

SummaryStats ==
    /\ out = NotCalled
    /\ out' = [op |-> "calculate_stats", prices |-> input,
               result |-> calculate_stats(input, now)]
    /\ UNCHANGED <<now, input, first, second, matchVars>>

InitSummary ==
    /\ now = 0
    /\ input \in SummaryLists
    /\ first = NotCalled
    /\ second = NotCalled
    /\ out = NotCalled
    /\ MatchingIdle

NextSummary == Tick \/ PercentileFirst \/ PercentileSecond \/ SummaryStats

SpecSummary == InitSummary /\ [][NextSummary]_vars

(***************************************************************************)
(* Text.  A text is a sequence of one-character strings over ASCII letters, *)
(* digits, the space and punctuation, so that the regular expressions and  *)
(* substring tests of the agent can be computed as the code computes them. *)
(* A title is named by its TLA+ string; Chars gives its characters.        *)
(***************************************************************************)
TargetProduct == "Bocina 8 500W"

OfferTitles == {"Bocina 8 500w Negro", "Bocina 8 Karaoke", "Kit Bocina 8 500w", "Bocina 12 500w", "Cable Usb"}

Chars(s) ==
    CASE s = "" -> <<>>
      [] s = "Bocina 8 500W" -> <<"B", "o", "c", "i", "n", "a", " ", "8", " ", "5", "0", "0", "W">>
      [] s = "Bocina 8 500w Negro" -> <<"B", "o", "c", "i", "n", "a", " ", "8", " ", "5", "0", "0", "w", " ", "N", "e", "g", "r", "o">>
      [] s = "Bocina 8 Karaoke" -> <<"B", "o", "c", "i", "n", "a", " ", "8", " ", "K", "a", "r", "a", "o", "k", "e">>
      [] s = "Kit Bocina 8 500w" -> <<"K", "i", "t", " ", "B", "o", "c", "i", "n", "a", " ", "8", " ", "5", "0", "0", "w">>
      [] s = "Bocina 12 500w" -> <<"B", "o", "c", "i", "n", "a", " ", "1", "2", " ", "5", "0", "0", "w">>
      [] s = "Bocina Sony" -> <<"B", "o", "c", "i", "n", "a", " ", "S", "o", "n", "y">>
      [] s = "Cable Usb" -> <<"C", "a", "b", "l", "e", " ", "U", "s", "b">>

Digit == {"0", "1", "2", "3", "4", "5", "6", "7", "8", "9"}

LowerLetter == {"a", "b", "c", "d", "e", "f", "g", "h", "i", "j", "k", "l", "m", "n", "o", "p", "q", "r", "s", "t", "u", "v", "w", "x", "y", "z"}

UpperToLower == [A |-> "a", B |-> "b", C |-> "c", D |-> "d", E |-> "e", F |-> "f", G |-> "g", H |-> "h", I |-> "i", J |-> "j", K |-> "k", L |-> "l", M |-> "m", N |-> "n", O |-> "o", P |-> "p", Q |-> "q", R |-> "r", S |-> "s", T |-> "t", U |-> "u", V |-> "v", W |-> "w", X |-> "x", Y |-> "y", Z |-> "z"]

\* str.lower(), character by character.
Lower(c) == IF c \in DOMAIN UpperToLower THEN UpperToLower[c] ELSE c

str_lower(text) == [i \in 1..Len(text) |-> Lower(text[i])]

\* \w of the re module, on this alphabet.
IsWordChar(c) == c \in Digit \cup LowerLetter \cup DOMAIN UpperToLower \cup {"_"}

\* The character at index i, or "" outside the text.
CharAt(text, i) == IF i >= 1 /\ i <= Len(text) THEN text[i] ELSE ""

\* \b just before index i (i in 1..Len(text)+1).
WordBoundary(text, i) == IsWordChar(CharAt(text, i - 1)) # IsWordChar(CharAt(text, i))

StartsWithAt(text, i, w) ==
    /\ i + Len(w) - 1 <= Len(text)
    /\ \A k \in 1..Len(w) : text[i + k - 1] = w[k]

\* w in text, for a non-empty w.
Contains(text, w) == \E i \in 1..(Len(text) - Len(w) + 1) : StartsWithAt(text, i, w)

AllDigits(text, i, k) == \A j \in i..(i + k - 1) : CharAt(text, j) \in Digit

(***************************************************************************)
(* re.findall for the two pattern shapes _extract_specs uses.              *)
(***************************************************************************)
\* One attempt of  \b(\d{lo,hi}(?:\.\d)?)\s?(?:u1|u2|...)\b  at index i (the
\* decimal part only when pat.decimal).  A candidate is <<k, d, w, u>>: k
\* digits, d = 1 with the decimal part, w = 1 with the blank, u the unit's
\* index.  The matcher is greedy with backtracking, so it prefers more digits,
\* then the decimal part, then the blank, then the earlier alternative.
UnitCandidates(text, i, pat) ==
    {c \in (pat.lo..pat.hi) \X {0, 1} \X {0, 1} \X (1..Len(pat.units)) :
        LET k      == c[1]
            afterD == i + k + 2 * c[2]
            afterW == afterD + c[3]
            unit   == pat.units[c[4]]
        IN  /\ WordBoundary(text, i)
            /\ AllDigits(text, i, k)
            /\ c[2] = 1 => /\ pat.decimal
                           /\ CharAt(text, i + k) = "."
                           /\ CharAt(text, i + k + 1) \in Digit
            /\ c[3] = 1 => CharAt(text, afterD) = " "
            /\ StartsWithAt(text, afterW, unit)
            /\ WordBoundary(text, afterW + Len(unit))}

Preferred(c, d) ==
    \/ c[1] > d[1]
    \/ c[1] = d[1] /\ c[2] > d[2]
    \/ c[1] = d[1] /\ c[2] = d[2] /\ c[3] > d[3]
    \/ c[1] = d[1] /\ c[2] = d[2] /\ c[3] = d[3] /\ c[4] <= d[4]

\* The match at index i: <<>> or <<captured group, index after the match>>.
UnitMatchAt(text, i, pat) ==
    LET cands == UnitCandidates(text, i, pat)
    IN  IF cands = {} THEN <<>>
        ELSE LET c == CHOOSE x \in cands : \A y \in cands : Preferred(x, y)
             IN  <<SubSeq(text, i, i + c[1] + 2 * c[2] - 1),
                   i + c[1] + 2 * c[2] + c[3] + Len(pat.units[c[4]])>>

RECURSIVE BlankRun(_, _)
BlankRun(text, i) == IF CharAt(text, i) = " " THEN 1 + BlankRun(text, i + 1) ELSE 0

\* One attempt of  \b(?:n1|n2|...)\s+(\d{1,2})\b  at index i.  A candidate is
\* <<n, k>>: the noun's index and the number of digits.
NounCandidates(text, i, nouns) ==
    {c \in (1..Len(nouns)) \X {1, 2} :
        LET afterN == i + Len(nouns[c[1]])
            afterW == afterN + BlankRun(text, afterN)
        IN  /\ WordBoundary(text, i)
            /\ StartsWithAt(text, i, nouns[c[1]])
            /\ BlankRun(text, afterN) >= 1
            /\ AllDigits(text, afterW, c[2])
            /\ WordBoundary(text, afterW + c[2])}

NounMatchAt(text, i, nouns) ==
    LET cands == NounCandidates(text, i, nouns)
    IN  IF cands = {} THEN <<>>
        ELSE LET c == CHOOSE x \in cands :
                          \A y \in cands : x[1] < y[1] \/ (x[1] = y[1] /\ x[2] >= y[2])
                 afterN == i + Len(nouns[c[1]])
                 afterW == afterN + BlankRun(text, afterN)
             IN  <<SubSeq(text, afterW, afterW + c[2] - 1), afterW + c[2]>>

\* re.findall: scan left to right, continue after each match.  A pattern is
\* [nouns] (the implicit audio size) or [lo, hi, decimal, units].
MatchAt(text, i, pat) ==
    IF "nouns" \in DOMAIN pat THEN NounMatchAt(text, i, pat.nouns)
    ELSE UnitMatchAt(text, i, pat)

RECURSIVE FindAllFrom(_, _, _)
FindAllFrom(text, i, pat) ==
    IF i > Len(text) THEN {}
    ELSE LET m == MatchAt(text, i, pat)
         IN  IF m = <<>> THEN FindAllFrom(text, i + 1, pat)
             ELSE {m[1]} \cup FindAllFrom(text, m[2], pat)

re_findall(pat, text) == FindAllFrom(text, 1, pat)

(***************************************************************************)
(* ProductMatchingAgent._extract_specs.                                    *)
(***************************************************************************)
UnitPattern(lo, hi, decimal, units) ==
    [lo |-> lo, hi |-> hi, decimal |-> decimal, units |-> units]

\* The patterns of each category, in the order add_matches is called.  The
\* "Ω" alternative of impedance is left out: the alphabet is ASCII.  No
\* pattern is registered for weight.
SpecPatterns ==
    [size      |-> <<UnitPattern(1, 2, TRUE,
                                 <<<<"\"">>, <<"i", "n">>, <<"p", "u", "l", "g">>,
                                   <<"p", "u", "l", "g", "a", "d", "a", "s">>>>),
                     [nouns |-> <<<<"b", "o", "c", "i", "n", "a">>,
                                  <<"b", "a", "f", "l", "e">>,
                                  <<"s", "u", "b", "w", "o", "o", "f", "e", "r">>,
                                  <<"p", "a", "r", "l", "a", "n", "t", "e">>,
                                  <<"w", "o", "o", "f", "e", "r">>,
                                  <<"m", "e", "d", "i", "o">>,
                                  <<"d", "r", "i", "v", "e", "r">>>>]>>,
     power     |-> <<UnitPattern(2, 5, FALSE,
                                 <<<<"w">>, <<"w", "a", "t", "t", "s">>,
                                   <<"w", "a", "t", "t">>>>)>>,
     capacity  |-> <<UnitPattern(1, 3, FALSE,
                                 <<<<"l">>, <<"l", "t">>,
                                   <<"l", "i", "t", "r", "o", "s">>,
                                   <<"l", "i", "t", "e", "r">>>>)>>,
     storage   |-> <<UnitPattern(1, 4, FALSE,
                                 <<<<"g", "b">>, <<"t", "b">>,
                                   <<"g", "i", "g", "a", "s">>>>)>>,
     voltage   |-> <<UnitPattern(1, 3, FALSE,
                                 <<<<"v">>, <<"v", "o", "l", "t", "s">>,
                                   <<"v", "o", "l", "t">>>>)>>,
     weight    |-> <<>>,
     impedance |-> <<UnitPattern(1, 2, FALSE,
                                 <<<<"o", "h", "m">>, <<"o", "h", "m", "s">>>>)>>]

\* The categories in the insertion order of the specs dict.
SpecCategories ==
    <<"size", "power", "capacity", "storage", "voltage", "weight", "impedance">>

_extract_specs(text) ==
    [category \in DOMAIN SpecPatterns |->
        UNION {re_findall(SpecPatterns[category][k], str_lower(text)) :
                   k \in 1..Len(SpecPatterns[category])}]

(***************************************************************************)
(* ProductMatchingAgent._calculate_token_overlap.                          *)
(***************************************************************************)
TokenChar == LowerLetter \cup Digit

RECURSIVE TokenRun(_, _)
TokenRun(text, i) == IF CharAt(text, i) \in TokenChar THEN 1 + TokenRun(text, i + 1) ELSE 0

\* One attempt of  \b[a-z0-9]{3,}\b  at index i: the longest run of at least
\* three token characters that ends at a word boundary.
TokenMatchAt(text, i) ==
    LET ks == {k \in 3..TokenRun(text, i) : WordBoundary(text, i + k)}
    IN  IF ~WordBoundary(text, i) \/ ks = {} THEN <<>>
        ELSE LET k == CHOOSE x \in ks : \A y \in ks : x >= y
             IN  <<SubSeq(text, i, i + k - 1), i + k>>

RECURSIVE FindTokensFrom(_, _)
FindTokensFrom(text, i) ==
    IF i > Len(text) THEN {}
    ELSE LET m == TokenMatchAt(text, i)
         IN  IF m = <<>> THEN FindTokensFrom(text, i + 1)
             ELSE {m[1]} \cup FindTokensFrom(text, m[2])

StopWords ==
    {<<"p", "a", "r", "a">>, <<"c", "o", "n">>, <<"l", "o", "s">>, <<"l", "a", "s">>,
     <<"u", "n", "a">>, <<"u", "n", "o">>, <<"d", "e", "l">>, <<"p", "o", "r">>,
     <<"q", "u", "e">>, <<"f", "o", "r">>, <<"w", "i", "t", "h">>, <<"t", "h", "e">>,
     <<"a", "n", "d">>}

clean_tokens(text) == FindTokensFrom(str_lower(text), 1) \ StopWords

\* The Jaccard score of two token sets as the fraction intersection / union
\* (0 when a side has no token).
Jaccard(set1, set2) ==
    IF set1 = {} \/ set2 = {} THEN Frac(0, 1)
    ELSE Frac(Cardinality(set1 \cap set2), Cardinality(set1 \cup set2))

_calculate_token_overlap(s1, s2) == Jaccard(clean_tokens(s1), clean_tokens(s2))

\* score < 0.05
ScoreBelowFloor(score) == 20 * score.num < score.den

(***************************************************************************)
(* ProductMatchingAgent: the offers a run receives.                        *)
(***************************************************************************)
MaxOffers == 2
NumConcOffers == 6

\* asyncio.Semaphore(5)
SemaphoreLimit == 5

\* A scraper offer as a dict.
Offer(item_id, title, price) == [item_id |-> item_id, title |-> title, price |-> price]

\* Two of the dict offers carry the same title under different ids.
DictOffers ==
    <<Offer("MLM1", "Bocina 8 500w Negro", 150),
      Offer("MLM2", "Bocina 8 Karaoke", 900),
      Offer("MLM3", "Bocina 8 Karaoke", 950),
      Offer("MLM4", "Kit Bocina 8 500w", 2500),
      Offer("MLM5", "Bocina 12 500w", 1500),
      Offer("MLM6", "Cable Usb", 80)>>

\* An entry that is neither a dict nor an object with to_dict (None).
NotAnOffer == [python_type |-> "NoneType"]

\* An object that has a to_dict method (and no __getitem__).
OfferObject == [to_dict |-> Offer("MLM7", "Bocina 8 500w Negro", 1300)]

RawEntries == {DictOffers[k] : k \in 1..Len(DictOffers)} \cup {NotAnOffer, OfferObject}

\* A long list of dict offers, for the runs that fill the semaphore.
ConcOffers == SubSeq(DictOffers \o DictOffers, 1, NumConcOffers)

hasattr_to_dict(o) == "to_dict" \in DOMAIN o

isinstance_dict(o) == "to_dict" \notin DOMAIN o /\ "python_type" \notin DOMAIN o

\* classify_products: "Normalize offers to dicts if they are objects".
RECURSIVE NormalizeOffers(_)
NormalizeOffers(offers) ==
    IF offers = <<>> THEN <<>>
    ELSE LET o == Head(offers)
             rest == NormalizeOffers(Tail(offers))
         IN  IF hasattr_to_dict(o) THEN <<o.to_dict>> \o rest
             ELSE IF isinstance_dict(o) THEN <<o>> \o rest
             ELSE rest

(***************************************************************************)
(* Embeddings.  The embedding service is a collaborator: a call returns a  *)
(* vector or raises.  Vectors are short integer vectors.                   *)
(***************************************************************************)
Embedded(vector) == [vector |-> vector]

TargetEmbeddingOutcomes == {Embedded(<<4, 0, 0, 0, 0>>), Raised("EmbeddingError")}

\* A vector close to the target (similarity 0.97), one whose similarity is
\* exactly 0.25 (dot 4, norms 4 and 4), one far from it (0.24), the zero
\* vector, an error.
OfferEmbeddingOutcomes ==
    {Embedded(<<4, 1, 0, 0, 0>>), Embedded(<<1, 3, 2, 1, 1>>),
     Embedded(<<1, 4, 0, 0, 0>>), Embedded(<<0, 0, 0, 0, 0>>),
     Raised("EmbeddingError")}

np_dot(vec1, vec2) == SumSeq([i \in 1..Len(vec1) |-> vec1[i] * vec2[i]])

\* The similarity is dot / sqrt(norms_squared); 0.0 when a vector is empty;
\* nan (0/0, a numpy warning and no exception) when a norm is 0.
_calculate_cosine_similarity(vec1, vec2) ==
    IF vec1 = <<>> \/ vec2 = <<>> THEN [dot |-> 0, norms_squared |-> 1]
    ELSE IF SumSquares(vec1) * SumSquares(vec2) = 0 THEN NaN
    ELSE [dot |-> np_dot(vec1, vec2),
          norms_squared |-> SumSquares(vec1) * SumSquares(vec2)]

\* The comparison taken as similarity <= 0.25.
SimilarityBelowGate_mut_inclusive(similarity) ==
    /\ similarity # NaN
    /\ \/ similarity.dot < 0
       \/ 16 * similarity.dot * similarity.dot <= similarity.norms_squared

\* similarity < 0.25 (a comparison with nan is False)
SimilarityBelowGate(similarity) ==
    /\ similarity # NaN
    /\ \/ similarity.dot < 0
       \/ 16 * similarity.dot * similarity.dot < similarity.norms_squared

(***************************************************************************)
(* Classifications.  A confidence is held in hundredths; a reason is held  *)
(* as the fixed text of the message with the values formatted into it.     *)
(***************************************************************************)
ProductClassification(offer, is_comparable, is_accessory, is_bundle, confidence, reason) ==
    [item_id |-> offer.item_id, title |-> offer.title,
     is_comparable |-> is_comparable, is_accessory |-> is_accessory,
     is_bundle |-> is_bundle, confidence |-> confidence, reason |-> reason]

AccessoryWords ==
    {<<"f", "u", "n", "d", "a">>, <<"c", "a", "s", "e">>,
     <<"c", "a", "b", "l", "e">>, <<"c", "a", "r", "g", "a", "d", "o", "r">>,
     <<"p", "r", "o", "t", "e", "c", "t", "o", "r">>, <<"m", "i", "c", "a">>,
     <<"g", "l", "a", "s", "s">>,
     <<"a", "d", "a", "p", "t", "a", "d", "o", "r">>, <<"b", "a", "s", "e">>,
     <<"s", "o", "p", "o", "r", "t", "e">>,
     <<"e", "s", "t", "u", "c", "h", "e">>}

BundleWords ==
    {<<"p", "a", "q", "u", "e", "t", "e">>, <<"c", "o", "m", "b", "o">>,
     <<"k", "i", "t">>, <<" ", "+", " ">>,
     <<"i", "n", "c", "l", "u", "y", "e">>}

\* is_comparable taken from the accessory words alone.
_heuristic_fallback_mut_bundle_comparable(target, offer) ==
    LET title_lower == str_lower(Chars(offer.title))
        is_accessory == \E word \in AccessoryWords : Contains(title_lower, word)
        is_bundle == \E word \in BundleWords : Contains(title_lower, word)
    IN  ProductClassification(offer, ~is_accessory, is_accessory,
                              is_bundle, 50, [text |-> "Heuristic Fallback"])

_heuristic_fallback(target, offer) ==
    LET title_lower == str_lower(Chars(offer.title))
        is_accessory == \E word \in AccessoryWords : Contains(title_lower, word)
        is_bundle == \E word \in BundleWords : Contains(title_lower, word)
    IN  ProductClassification(offer, ~(is_accessory \/ is_bundle), is_accessory,
                              is_bundle, 50, [text |-> "Heuristic Fallback"])

\* The module never imports re at module level (only inside three other
\* methods), so the first statement raises NameError: name 're' is not defined.
_check_digit_consistency(target, offer) == Raised("NameError")

\* A variant that does not skip a category the offer says nothing about.
InConflict_mut_onesided(t_values, o_values) ==
    t_values # {} /\ t_values \cap o_values = {}

\* Target and offer both carry values of a category and share none.
InConflict(t_values, o_values) ==
    t_values # {} /\ o_values # {} /\ t_values \cap o_values = {}

\* The index of the first category in conflict, in the order of the specs
\* dict; 0 when no category is in conflict.
FirstConflict(target_specs, offer_specs) ==
    LET conflicts == {k \in 1..Len(SpecCategories) :
                         InConflict(target_specs[SpecCategories[k]],
                                    offer_specs[SpecCategories[k]])}
    IN  IF conflicts = {} THEN 0
        ELSE CHOOSE k \in conflicts : \A j \in conflicts : k <= j

\* The try block went past a rule without returning.
FallsThrough == [falls_through |-> TRUE]

\* The first rules of the try block, in order, on the extracted values.  The
\* digit consistency check is called for every offer the first two rules let
\* through and raises, so the statements after it (the keyword, price and
\* bundle rules and the LLM call) are never reached; reference_price and the
\* offer's price are first read by the price rule, so no result depends on
\* them.
RuleChain(target, offer, target_specs, offer_specs, conflict, token_score) ==
    IF conflict # 0
    THEN ProductClassification(offer, FALSE, FALSE, FALSE, 99,
             [text |-> "Spec Mismatch", category |-> SpecCategories[conflict],
              target |-> target_specs[SpecCategories[conflict]],
              offer |-> offer_specs[SpecCategories[conflict]]])
    ELSE IF ScoreBelowFloor(token_score)
    THEN ProductClassification(offer, FALSE, FALSE, FALSE, 90,
             [text |-> "Semantic Mismatch: Low token overlap",
              token_score |-> token_score])
    ELSE LET consistent == _check_digit_consistency(target, offer.title)
         IN  IF IsRaised(consistent) THEN consistent
             ELSE IF ~consistent.returned
             THEN ProductClassification(offer, FALSE, FALSE, FALSE, 95,
                      [text |-> "Digit Mismatch"])
             ELSE FallsThrough

ClassifyOnSpecs(target, offer, target_specs, offer_specs) ==
    RuleChain(target, offer, target_specs, offer_specs,
              FirstConflict(target_specs, offer_specs),
              _calculate_token_overlap(Chars(target), Chars(offer.title)))

\* The try block of _classify_single_product up to the digit consistency
\* check: the classification it returns, or the exception it raises.
TryClassify(target, offer) ==
    ClassifyOnSpecs(target, offer, _extract_specs(Chars(target)),
                    _extract_specs(Chars(offer.title)))

(***************************************************************************)
(* The conditions of the rules that follow the first two in the try block, *)
(* as their statements compute them once the name re resolves.             *)
(***************************************************************************)
\* The maximal runs of digits of a text, as <<index, length>>.
DigitRuns(text) ==
    {r \in (1..Len(text)) \X (1..Len(text)) :
        /\ AllDigits(text, r[1], r[2])
        /\ CharAt(text, r[1] - 1) \notin Digit
        /\ CharAt(text, r[1] + r[2]) \notin Digit}

\* _check_digit_consistency: re.findall(r'\b\d+\b', target) against
\* re.findall(r'\d+', offer); True when the target has no standalone number
\* or shares one with the offer.
DigitsConsistent(target, offer) ==
    LET target_digits == {SubSeq(target, r[1], r[1] + r[2] - 1) :
                             r \in {x \in DigitRuns(target) :
                                        /\ WordBoundary(target, x[1])
                                        /\ WordBoundary(target, x[1] + x[2])}}
        offer_digits  == {SubSeq(offer, r[1], r[1] + r[2] - 1) : r \in DigitRuns(offer)}
    IN  target_digits = {} \/ target_digits \cap offer_digits # {}

\* text.split(): the maximal runs of characters other than the blank.
split(text) ==
    {SubSeq(text, r[1], r[2]) :
        r \in {x \in (1..Len(text)) \X (1..Len(text)) :
                  /\ x[1] <= x[2]
                  /\ \A k \in x[1]..x[2] : text[k] # " "
                  /\ CharAt(text, x[1] - 1) \in {"", " "}
                  /\ CharAt(text, x[2] + 1) \in {"", " "}}}

KeywordUnits ==
    {<<"o", "h", "m">>, <<"w">>, <<"v">>, <<"k", "w">>, <<"h", "p">>, <<"k", "g">>,
     <<"g">>, <<"l", "b">>, <<"o", "z">>, <<"m", "l">>, <<"l">>, <<"m">>,
     <<"c", "m">>, <<"m", "m">>, <<"i", "n">>, <<"f", "t">>, <<"g", "b">>,
     <<"t", "b">>, <<"h", "z">>, <<"k", "h", "z">>, <<"m", "a", "h">>}

\* re.match(r'^\d+(?:ohm|w|...|mah)$', clean.lower())
IsUnitToken(clean) ==
    \E k \in 1..(Len(clean) - 1) :
        /\ AllDigits(clean, 1, k)
        /\ str_lower(SubSeq(clean, k + 1, Len(clean))) \in KeywordUnits

\* The token is kept when it has a digit or is all upper case with at least
\* three characters, is not a number with a unit, and has two characters or more.
IsModelToken(clean) ==
    /\ Len(clean) >= 2
    /\ ~IsUnitToken(clean)
    /\ \/ \E k \in 1..Len(clean) : clean[k] \in Digit
       \/ /\ Len(clean) >= 3
          /\ \E k \in 1..Len(clean) : clean[k] \in DOMAIN UpperToLower
          /\ \A k \in 1..Len(clean) : clean[k] \notin LowerLetter

_extract_essential_keywords(text) ==
    {str_lower(clean) :
        clean \in {c \in {SelectSeq(token, LAMBDA ch : ch \in Digit \cup LowerLetter
                                                            \cup DOMAIN UpperToLower) :
                              token \in split(text)} : IsModelToken(c)}}

\* The keyword rule lets the offer through: the target has no essential
\* keyword, or the lower-cased title contains one of them.
KeywordsPresent(target, title) ==
    \/ _extract_essential_keywords(target) = {}
    \/ \E kw \in _extract_essential_keywords(target) : Contains(str_lower(title), kw)

\* ratio = price / reference_price < 0.4, when both are positive.
PriceTooLow(price, reference_price) ==
    reference_price > 0 /\ price > 0 /\ 10 * price < 4 * reference_price

\* ratio > 3.5, when both are positive.
PriceTooHigh(price, reference_price) ==
    reference_price > 0 /\ price > 0 /\ 10 * price > 35 * reference_price

BundleKeywords ==
    {<<"k", "i", "t">>, <<"p", "a", "c", "k">>, <<"l", "o", "t", "e">>,
     <<"s", "e", "t">>, <<"j", "u", "e", "g", "o">>, <<"p", "a", "r">>,
     <<"d", "u", "o">>}

StrictBundles ==
    {<<"k", "i", "t">>, <<"l", "o", "t", "e">>, <<"p", "a", "c", "k">>,
     <<"j", "u", "e", "g", "o">>}

\* The bundle rule: the target names no bundle word and the offer names a
\* strict one.
BundleMismatch(target, title) ==
    /\ ~\E bk \in BundleKeywords : Contains(str_lower(target), bk)
    /\ \E bk \in BundleKeywords : Contains(str_lower(title), bk)
    /\ \E sb \in StrictBundles : Contains(str_lower(title), sb)

\* The targets and the dicts a run of the model classifies.  The values of
\* TryClassify and _heuristic_fallback on them are computed once.
Targets == {TargetProduct, "Bocina Sony"}

ClassifiableOffers == {DictOffers[k] : k \in 1..Len(DictOffers)} \cup {OfferObject.to_dict}

\* _extract_specs of the target and of every title of the model.
ExtractSpecsOf ==
    [text \in Targets \cup OfferTitles |-> _extract_specs(Chars(text))]

\* The conditions of the six rules on the target and every title.
RuleConditionsOf ==
    [target \in Targets, title \in OfferTitles |->
        [conflict    |-> FirstConflict(_extract_specs(Chars(target)),
                                       _extract_specs(Chars(title))) # 0,
         low_overlap |-> ScoreBelowFloor(_calculate_token_overlap(Chars(target),
                                                                  Chars(title))),
         digits      |-> DigitsConsistent(Chars(target), Chars(title)),
         keywords    |-> KeywordsPresent(Chars(target), Chars(title)),
         bundle      |-> BundleMismatch(Chars(target), Chars(title))]]

TryClassifyOf ==
    [target \in Targets, offer \in ClassifiableOffers |-> TryClassify(target, offer)]

HeuristicFallbackOf ==
    [target \in Targets, offer \in ClassifiableOffers |->
        _heuristic_fallback(target, offer)]

(***************************************************************************)
(* The LLM call and the reading of its response.  A response is the text   *)
(* of response.content; the texts of the model are written out as          *)
(* characters.                                                             *)
(***************************************************************************)
\* The character U+0060, which a string of the language cannot hold.
Backquote == "backquote"

\* "{\"classification\": \"comparable\", \"confidence\": 0.9, \"reason\": \"Same speaker\"}"
VerdictComparable ==
    <<"{", "\"", "c", "l", "a", "s", "s", "i", "f", "i", "c", "a", "t", "i",
      "o", "n", "\"", ":", " ", "\"", "c", "o", "m", "p", "a", "r", "a", "b",
      "l", "e", "\"", ",", " ", "\"", "c", "o", "n", "f", "i", "d", "e", "n",
      "c", "e", "\"", ":", " ", "0", ".", "9", ",", " ", "\"", "r", "e", "a",
      "s", "o", "n", "\"", ":", " ", "\"", "S", "a", "m", "e", " ", "s", "p",
      "e", "a", "k", "e", "r", "\"", "}">>

\* the document "{\"classification\": \"accessory\", \"confidence\": 0.8, \"reason\": \"A cable\"}" between md fences (three backquotes, json)
VerdictFenced ==
    <<Backquote, Backquote, Backquote, "j", "s", "o", "n", "\n", "{", "\"", "c", "l", "a", "s",
      "s", "i", "f", "i", "c", "a", "t", "i", "o", "n", "\"", ":", " ", "\"",
      "a", "c", "c", "e", "s", "s", "o", "r", "y", "\"", ",", " ", "\"", "c",
      "o", "n", "f", "i", "d", "e", "n", "c", "e", "\"", ":", " ", "0", ".",
      "8", ",", " ", "\"", "r", "e", "a", "s", "o", "n", "\"", ":", " ",
      "\"", "A", " ", "c", "a", "b", "l", "e", "\"", "}", "\n", Backquote, Backquote,
      Backquote>>

\* "{\"classification\": \"bundle\", \"confidence\": 0.7, \"reason\": \"kit\"}"
VerdictBundle ==
    <<"{", "\"", "c", "l", "a", "s", "s", "i", "f", "i", "c", "a", "t", "i",
      "o", "n", "\"", ":", " ", "\"", "b", "u", "n", "d", "l", "e", "\"",
      ",", " ", "\"", "c", "o", "n", "f", "i", "d", "e", "n", "c", "e", "\"",
      ":", " ", "0", ".", "7", ",", " ", "\"", "r", "e", "a", "s", "o", "n",
      "\"", ":", " ", "\"", "k", "i", "t", "\"", "}">>

\* "{\"classification\": \"not_comparable\", \"confidence\": 0.9, \"reason\": \"other\"}"
VerdictNotComparable ==
    <<"{", "\"", "c", "l", "a", "s", "s", "i", "f", "i", "c", "a", "t", "i",
      "o", "n", "\"", ":", " ", "\"", "n", "o", "t", "_", "c", "o", "m", "p",
      "a", "r", "a", "b", "l", "e", "\"", ",", " ", "\"", "c", "o", "n", "f",
      "i", "d", "e", "n", "c", "e", "\"", ":", " ", "0", ".", "9", ",", " ",
      "\"", "r", "e", "a", "s", "o", "n", "\"", ":", " ", "\"", "o", "t",
      "h", "e", "r", "\"", "}">>

\* "{\"classification\": \"similar\", \"confidence\": 0.4, \"reason\": \"close\"}"
VerdictUnknown ==
    <<"{", "\"", "c", "l", "a", "s", "s", "i", "f", "i", "c", "a", "t", "i",
      "o", "n", "\"", ":", " ", "\"", "s", "i", "m", "i", "l", "a", "r",
      "\"", ",", " ", "\"", "c", "o", "n", "f", "i", "d", "e", "n", "c", "e",
      "\"", ":", " ", "0", ".", "4", ",", " ", "\"", "r", "e", "a", "s", "o",
      "n", "\"", ":", " ", "\"", "c", "l", "o", "s", "e", "\"", "}">>

\* "{}"
VerdictEmpty ==
    <<"{", "}">>

\* "not_comparable"
TextNotComparable ==
    <<"n", "o", "t", "_", "c", "o", "m", "p", "a", "r", "a", "b", "l", "e">>

\* "Accessory: a cable"
TextAccessory ==
    <<"A", "c", "c", "e", "s", "s", "o", "r", "y", ":", " ", "a", " ", "c",
      "a", "b", "l", "e">>

\* "It is a bundle"
TextBundle ==
    <<"I", "t", " ", "i", "s", " ", "a", " ", "b", "u", "n", "d", "l", "e">>

\* "cannot decide"
TextUndecided ==
    <<"c", "a", "n", "n", "o", "t", " ", "d", "e", "c", "i", "d", "e">>

\* "\"bundle\""
TextJsonString ==
    <<"\"", "b", "u", "n", "d", "l", "e", "\"">>

\* "bundle, so not_comparable"
TextBundleNotComparable ==
    <<"b", "u", "n", "d", "l", "e", ",", " ", "s", "o", " ", "n", "o", "t",
      "_", "c", "o", "m", "p", "a", "r", "a", "b", "l", "e">>

LlmResponses ==
    {VerdictComparable,
     VerdictFenced,
     VerdictBundle,
     VerdictNotComparable,
     VerdictUnknown,
     VerdictEmpty,
     TextNotComparable,
     TextAccessory,
     TextBundle,
     TextUndecided,
     TextJsonString,
     TextBundleNotComparable}

\* self.llm.ainvoke returns a response or raises.
LlmOutcomes == {[content |-> r] : r \in LlmResponses} \cup {Raised("LLMError")}

\* No LLM call was made.
NoLlmCall == [not_called |-> TRUE]

Whitespace == {" ", "\n", "\t"}

\* str.strip()
RECURSIVE str_strip(_)
str_strip(text) ==
    IF text = <<>> THEN text
    ELSE IF Head(text) \in Whitespace THEN str_strip(Tail(text))
    ELSE IF text[Len(text)] \in Whitespace THEN str_strip(SubSeq(text, 1, Len(text) - 1))
    ELSE text

\* str.replace(old, ""): every occurrence of old, left to right, removed.
RECURSIVE str_remove(_, _)
str_remove(text, old) ==
    IF text = <<>> THEN <<>>
    ELSE IF StartsWithAt(text, 1, old)
    THEN str_remove(SubSeq(text, Len(old) + 1, Len(text)), old)
    ELSE <<Head(text)>> \o str_remove(Tail(text), old)

\* content = response.content.lower().strip(), then the md fences removed.
CleanContent(content) ==
    str_remove(str_remove(str_strip(str_lower(content)),
                          <<Backquote, Backquote, Backquote, "j", "s", "o", "n">>),
               <<Backquote, Backquote, Backquote>>)

\* A parsed JSON object (the keys it has, a confidence in hundredths) and a
\* parsed JSON string.
JsonObject(items) == [type |-> "dict", items |-> items]

JsonString(value) == [type |-> "str", value |-> value]

\* json.loads on the cleaned contents of the responses above: the value for
\* the texts that are JSON documents, JSONDecodeError for the others.
json_loads(content) ==
    CASE content = CleanContent(VerdictComparable)
           -> JsonObject([classification |-> "comparable", confidence |-> 90, reason |-> "same speaker"])
      [] content = CleanContent(VerdictFenced)
           -> JsonObject([classification |-> "accessory", confidence |-> 80, reason |-> "a cable"])
      [] content = CleanContent(VerdictBundle)
           -> JsonObject([classification |-> "bundle", confidence |-> 70, reason |-> "kit"])
      [] content = CleanContent(VerdictNotComparable)
           -> JsonObject([classification |-> "not_comparable", confidence |-> 90, reason |-> "other"])
      [] content = CleanContent(VerdictUnknown)
           -> JsonObject([classification |-> "similar", confidence |-> 40, reason |-> "close"])
      [] content = CleanContent(VerdictEmpty)
           -> JsonObject(<<>>)
      [] content = CleanContent(TextJsonString)
           -> JsonString("bundle")
      [] OTHER -> Raised("JSONDecodeError")

\* dict.get(key, default)
Get(items, key, default) == IF key \in DOMAIN items THEN items[key] ELSE default

\* "Fallback parser": the first of the category words found in the content.
FallbackCategory(content) ==
    IF Contains(content, <<"c", "o", "m", "p", "a", "r", "a", "b", "l", "e">>)
    THEN "comparable"
    ELSE IF Contains(content, <<"a", "c", "c", "e", "s", "s", "o", "r", "y">>)
    THEN "accessory"
    ELSE IF Contains(content, <<"b", "u", "n", "d", "l", "e">>) THEN "bundle"
    ELSE "not_comparable"

\* The statements after `await self.llm.ainvoke(messages)`.  data.get raises
\* AttributeError when the document is not an object; the bare except takes
\* that and the decode error alike.
ParseResponse(offer, content) ==
    LET data   == json_loads(content)
        loaded == ~IsRaised(data) /\ data.type = "dict"
        cat    == IF loaded THEN Get(data.items, "classification", "not_comparable")
                  ELSE FallbackCategory(content)
        conf   == IF loaded THEN Get(data.items, "confidence", 50) ELSE 60
        reason == IF loaded THEN Get(data.items, "reason", "LLM decision")
                  ELSE "Regex fallback"
    IN  ProductClassification(offer, cat = "comparable", cat = "accessory",
                              cat = "bundle", conf, [text |-> reason])

\* The LLM call and what follows it; an exception of the call leaves the try
\* block.
Adjudicate(offer, outcome) ==
    IF IsRaised(outcome) THEN outcome
    ELSE ParseResponse(offer, CleanContent(outcome.content))

\* The keyword, price and bundle rules (the statements between the digit
\* consistency check and the LLM call).  With essential keywords in the
\* target the keyword rule calls re.sub, and the name re is not defined in
\* this function either.
LaterRules(target, offer, reference_price) ==
    IF _extract_essential_keywords(Chars(target)) # {} THEN Raised("NameError")
    ELSE IF PriceTooLow(offer.price, reference_price)
    THEN ProductClassification(offer, FALSE, TRUE, FALSE, 95,
             [text |-> "Price Safety: too low"])
    ELSE IF PriceTooHigh(offer.price, reference_price)
    THEN ProductClassification(offer, FALSE, FALSE, TRUE, 95,
             [text |-> "Price Safety: too high"])
    ELSE IF BundleMismatch(Chars(target), Chars(offer.title))
    THEN ProductClassification(offer, FALSE, FALSE, TRUE, 90,
             [text |-> "Bundle Mismatch"])
    ELSE FallsThrough

\* The try block reaches the LLM call: no statement before it returns or
\* raises.
AwaitsLlm(target, offer, reference_price) ==
    /\ TryClassifyOf[target, offer] = FallsThrough
    /\ LaterRules(target, offer, reference_price) = FallsThrough

\* The outcomes of the LLM call of an offer: none when the call is not
\* reached.
LlmOutcomesOf(target, offer, reference_price) ==
    IF AwaitsLlm(target, offer, reference_price) THEN LlmOutcomes ELSE {NoLlmCall}

\* The statements of the try block after the digit consistency check.
LaterStatements(target, offer, reference_price, outcome) ==
    IF LaterRules(target, offer, reference_price) # FallsThrough
    THEN LaterRules(target, offer, reference_price)
    ELSE Adjudicate(offer, outcome)

\* The try block of _classify_single_product.
TryBlock(target, offer, reference_price, outcome) ==
    IF TryClassifyOf[target, offer] # FallsThrough THEN TryClassifyOf[target, offer]
    ELSE LaterStatements(target, offer, reference_price, outcome)

_classify_single_product_mut_noexcept(target, offer, reference_price, outcome) ==
    TryBlock(target, offer, reference_price, outcome)

\* try: <tried> except Exception: return <fallback>
ExceptException(tried, fallback) == IF IsRaised(tried) THEN fallback ELSE tried

_classify_single_product(target, offer, reference_price, outcome) ==
    ExceptException(TryBlock(target, offer, reference_price, outcome),
                    HeuristicFallbackOf[target, offer])

\* The embedding check of sem_task: the call returned a vector whose
\* similarity to the target is below 0.25.  An exception of the call is
\* swallowed by the except clause around the embedding call.
GateRejects(target_vec, outcome) ==
    /\ ~IsRaised(outcome)
    /\ SimilarityBelowGate(_calculate_cosine_similarity(target_vec, outcome.vector))

\* An exception of the embedding call taken as a rejection of the offer.
sem_task_result_mut_error_rejects(target, offer, reference_price, target_vec, outcome, llm) ==
    IF IsRaised(outcome)
    THEN ProductClassification(offer, FALSE, FALSE, FALSE, 85,
             [text |-> "Semantic Mismatch (AI)", similarity |-> NaN])
    ELSE IF GateRejects(target_vec, outcome)
    THEN ProductClassification(offer, FALSE, FALSE, FALSE, 85,
             [text |-> "Semantic Mismatch (AI)",
              similarity |-> _calculate_cosine_similarity(target_vec, outcome.vector)])
    ELSE _classify_single_product(target, offer, reference_price, llm)

\* What sem_task returns once the embedding call of its offer came back.
sem_task_result(target, offer, reference_price, target_vec, outcome, llm) ==
    IF GateRejects(target_vec, outcome)
    THEN ProductClassification(offer, FALSE, FALSE, FALSE, 85,
             [text |-> "Semantic Mismatch (AI)",
              similarity |-> _calculate_cosine_similarity(target_vec, outcome.vector)])
    ELSE _classify_single_product(target, offer, reference_price, llm)

\* How the embedding check of a task ended: the call raised ("failed"), the
\* similarity was below the threshold ("rejected"), or it was not ("passed").
\* A task without a target vector has no check ("skipped").
gate_of(target_vec, outcome) ==
    IF IsRaised(outcome) THEN "failed"
    ELSE IF GateRejects(target_vec, outcome) THEN "rejected"
    ELSE "passed"

\* The stages a call of _classify_single_product runs: the rules, and the LLM
\* when its call is awaited.
classify_stages(target, offer, reference_price) ==
    IF AwaitsLlm(target, offer, reference_price) THEN <<"rules", "llm">>
    ELSE <<"rules">>

sem_task_stages_mut_no_return(target, offer, reference_price, target_vec, outcome) ==
    classify_stages(target, offer, reference_price)

\* The stages sem_task ran for its offer after the embedding check: none
\* when the check returned its rejection, else those of
\* _classify_single_product.
sem_task_stages(target, offer, reference_price, target_vec, outcome) ==
    IF GateRejects(target_vec, outcome) THEN <<>>
    ELSE classify_stages(target, offer, reference_price)

\* An embedding call: whose text, and the text.
EmbedCall(of, text) == [of |-> of, text |-> text]

sem_task_embeds_mut_target_again(target, offer) ==
    <<EmbedCall("target", target), EmbedCall("offer", offer.title)>>

\* The embedding calls of a task that has a target vector: the offer's title.
sem_task_embeds(target, offer) == <<EmbedCall("offer", offer.title)>>

(***************************************************************************)
(* The matching run: execute -> receive_offers -> classify_products ->     *)
(* filter_comparable -> the result of execute.  A step is the code between *)
(* two awaits of the event loop.                                           *)
(***************************************************************************)
Pending == [pending |-> TRUE]

NewTask == [pc |-> "pending", result |-> Pending, embedded |-> FALSE,
            completed_first |-> FALSE, stages |-> <<>>]

\* A task that returned (or raised) `r`; completed_first marks the task that
\* completed before every other task of the run; stages are the stages that
\* ran after the embedding check.
DoneTask(ts, r, embedded, stages) ==
    [pc |-> "done", result |-> r, embedded |-> embedded,
     completed_first |-> \A j \in 1..Len(ts) : ts[j].pc # "done",
     stages |-> stages]

InFlight(ts) == {i \in 1..Len(ts) : ts[i].pc = "embedding"}

AllDone(ts) == \A i \in 1..Len(ts) : ts[i].pc = "done"

AnyRaised(ts) == \E i \in 1..Len(ts) : ts[i].pc = "done" /\ IsRaised(ts[i].result)

CanAcquire_mut_unbounded(value) == TRUE

\* Semaphore.acquire returns at once while the value is positive, else waits.
CanAcquire(value) == value > 0

\* The results in the order the tasks completed, as far as the model tracks
\* it: the result of the first completed task moves to the front.
gather_mut_as_completed(ts) ==
    LET firsts == {i \in 1..Len(ts) : ts[i].completed_first}
    IN  IF firsts = {} THEN [i \in 1..Len(ts) |-> ts[i].result]
        ELSE LET f == CHOOSE i \in firsts : TRUE
             IN  <<ts[f].result>>
                 \o [k \in 1..(Len(ts) - 1) |-> ts[IF k < f THEN k ELSE k + 1].result]

\* asyncio.gather(*tasks): the results in the order of the awaitables.
gather(ts) == [i \in 1..Len(ts) |-> ts[i].result]

\* gather returns when every task is done, and propagates the first exception.
GatherReady(ts) == AllDone(ts) \/ AnyRaised(ts)

comparable_titles_mut_all(classified) ==
    {classified[k].title : k \in 1..Len(classified)}

\* filter_comparable: {c.title for c in classified if c.is_comparable}
comparable_titles(classified) ==
    {classified[k].title : k \in {j \in 1..Len(classified) : classified[j].is_comparable}}

\* o['title'] succeeds on a dict only.
Subscriptable(o) == isinstance_dict(o)

\* execute: the first raw offer with the title, if any.
MatchingOffer(raw_offers, title) ==
    LET found == {k \in 1..Len(raw_offers) : raw_offers[k].title = title}
    IN  IF found = {} THEN None
        ELSE Some(raw_offers[CHOOSE k \in found : \A j \in found : k <= j])

\* execute: "Build excluded offers list with reasons".
ExcludedOffers(classified, raw_offers) ==
    LET rejected == SelectSeq(classified, LAMBDA c :
                        ~c.is_comparable /\ MatchingOffer(raw_offers, c.title) # None)
    IN  [k \in 1..Len(rejected) |->
            [exclusion_reason |-> rejected[k].reason]
                @@ MatchingOffer(raw_offers, rejected[k].title)[1]]

\* The rejected entry written into the raw offer itself
\* (matching_offer["exclusion_reason"] = ...) instead of into a copy.
raw_offers_after_build_mut_in_place(classified, raw_offers) ==
    [k \in 1..Len(raw_offers) |->
        LET hits == {j \in 1..Len(classified) :
                        /\ ~classified[j].is_comparable
                        /\ MatchingOffer(raw_offers, classified[j].title)
                               = Some(raw_offers[k])}
        IN  IF hits = {} THEN raw_offers[k]
            ELSE [exclusion_reason |->
                      classified[CHOOSE j \in hits : \A i \in hits : j >= i].reason]
                     @@ raw_offers[k]]

\* execute: the raw offers after the excluded list is built.  The entry is a
\* new dict, {**matching_offer, "exclusion_reason": ...}; the loop assigns to
\* no raw offer and to no position of the list.
raw_offers_after_build(classified, raw_offers) == raw_offers

receive_offers ==
    /\ pc = "receive_offers"
    /\ state' = [state EXCEPT !.classified_offers = <<>>,
                              !.comparable_offers = <<>>,
                              !.excluded_count = 0,
                              !.errors = IF state.raw_offers = <<>>
                                         THEN Append(@, "No offers received from scraper")
                                         ELSE @]
    /\ pc' = "classify_products"
    /\ UNCHANGED <<normalized_offers, target_embedding, semaphore, tasks,
                   embed_calls, result>>
    /\ UNCHANGED analyticsVars

\* classify_products up to its first await, the embedding of the target.
classify_products ==
    /\ pc = "classify_products"
    /\ normalized_offers' = NormalizeOffers(state.raw_offers)
    /\ semaphore' = SemaphoreLimit
    /\ target_embedding' = <<>>
    /\ embed_calls' = Append(embed_calls, EmbedCall("target", state.target_product))
    /\ pc' = "embed_target"
    /\ UNCHANGED <<state, tasks, result>>
    /\ UNCHANGED analyticsVars

\* The embedding of the target returns or raises; the tasks are created and
\* classify_products awaits gather.
target_embedded ==
    \E outcome \in TargetEmbeddingOutcomes :
        /\ pc = "embed_target"
        /\ target_embedding' = IF IsRaised(outcome) THEN <<>> ELSE outcome.vector
        /\ tasks' = [i \in 1..Len(normalized_offers) |-> NewTask]
        /\ pc' = "gather"
        /\ UNCHANGED <<state, normalized_offers, semaphore, embed_calls, result>>
        /\ UNCHANGED analyticsVars

\* sem_task enters the semaphore, in the order the tasks were created.  With
\* a target vector it then awaits the embedding of its offer; without one it
\* classifies and leaves the semaphore in the same step.
sem_task_enter ==
    \E i \in 1..Len(tasks) :
        /\ pc = "gather"
        /\ tasks[i].pc = "pending"
        /\ \A j \in 1..(i - 1) : tasks[j].pc # "pending"
        /\ CanAcquire(semaphore)
        /\ IF target_embedding # <<>>
           THEN /\ tasks' = [tasks EXCEPT ![i].pc = "embedding"]
                /\ semaphore' = semaphore - 1
                /\ embed_calls' = embed_calls \o sem_task_embeds(state.target_product,
                                                                 normalized_offers[i])
           ELSE /\ \E llm \in LlmOutcomesOf(state.target_product, normalized_offers[i],
                                             state.reference_price) :
                       tasks' = [tasks EXCEPT ![i] = DoneTask(tasks,
                                    _classify_single_product(state.target_product,
                                        normalized_offers[i], state.reference_price, llm),
                                    FALSE,
                                    classify_stages(state.target_product,
                                        normalized_offers[i], state.reference_price))]
                /\ UNCHANGED <<semaphore, embed_calls>>
        /\ UNCHANGED <<pc, state, normalized_offers, target_embedding, result>>
        /\ UNCHANGED analyticsVars

\* The embedding call of task i returns or raises; the task finishes and
\* leaves the semaphore.
sem_task_embedded ==
    \E i \in 1..Len(tasks), outcome \in OfferEmbeddingOutcomes :
        /\ pc = "gather"
        /\ tasks[i].pc = "embedding"
        /\ \E llm \in LlmOutcomesOf(state.target_product, normalized_offers[i],
                                     state.reference_price) :
               tasks' = [tasks EXCEPT ![i] = DoneTask(tasks,
                            sem_task_result(state.target_product, normalized_offers[i],
                                state.reference_price, target_embedding, outcome, llm),
                            TRUE,
                            sem_task_stages(state.target_product, normalized_offers[i],
                                state.reference_price, target_embedding, outcome))]
        /\ semaphore' = semaphore + 1
        /\ UNCHANGED <<pc, state, normalized_offers, target_embedding, embed_calls,
                       result>>
        /\ UNCHANGED analyticsVars

\* await asyncio.gather(*tasks) returns; state["classified_offers"] is set.
gather_returns ==
    /\ pc = "gather"
    /\ GatherReady(tasks)
    /\ IF AnyRaised(tasks)
       THEN /\ pc' = "raised"
            /\ result' = (CHOOSE r \in {tasks[i].result : i \in 1..Len(tasks)} : IsRaised(r))
            /\ UNCHANGED state
       ELSE /\ pc' = "filter_comparable"
            /\ state' = [state EXCEPT !.classified_offers = gather(tasks)]
            /\ UNCHANGED result
    /\ UNCHANGED <<normalized_offers, target_embedding, semaphore, tasks, embed_calls>>
    /\ UNCHANGED analyticsVars

\* filter_comparable.  The comprehension subscripts every raw offer, and the
\* set of titles reads every classification.
filter_comparable ==
    /\ pc = "filter_comparable"
    /\ IF \E k \in 1..Len(state.classified_offers) : state.classified_offers[k] = Pending
       THEN /\ pc' = "raised"
            /\ result' = Raised("AttributeError")
            /\ UNCHANGED state
       ELSE IF \E k \in 1..Len(state.raw_offers) : ~Subscriptable(state.raw_offers[k])
       THEN /\ pc' = "raised"
            /\ result' = Raised("TypeError")
            /\ UNCHANGED state
       ELSE LET titles == comparable_titles(state.classified_offers)
                comparable_offers == SelectSeq(state.raw_offers,
                                               LAMBDA o : o.title \in titles)
            IN  /\ state' = [state EXCEPT
                                !.comparable_offers = comparable_offers,
                                !.excluded_count = Len(state.raw_offers)
                                                   - Len(comparable_offers)]
                /\ pc' = "build_result"
                /\ UNCHANGED result
    /\ UNCHANGED <<normalized_offers, target_embedding, semaphore, tasks, embed_calls>>
    /\ UNCHANGED analyticsVars

\* execute builds and returns its result.
execute_returns ==
    /\ pc = "build_result"
    /\ result' = [target_product    |-> state.target_product,
                  total_offers      |-> Len(state.raw_offers),
                  comparable_offers |-> state.comparable_offers,
                  comparable_count  |-> Len(state.comparable_offers),
                  excluded_count    |-> state.excluded_count,
                  excluded_offers   |-> ExcludedOffers(state.classified_offers,
                                                       state.raw_offers),
                  classifications   |-> state.classified_offers,
                  errors            |-> state.errors]
    /\ state' = [state EXCEPT !.raw_offers =
                     raw_offers_after_build(state.classified_offers, @)]
    /\ pc' = "returned"
    /\ UNCHANGED <<normalized_offers, target_embedding, semaphore, tasks, embed_calls>>
    /\ UNCHANGED analyticsVars

\* No engine call is in progress during a matching run.
AnalyticsIdle ==
    /\ now = 0
    /\ input = <<>>
    /\ first = NotCalled
    /\ second = NotCalled
    /\ out = NotCalled

\* The reference prices of the runs: none (the default 0.0), and 500.
ReferencePrices == {0, 500}

\* execute(target_product, raw_offers, reference_price) was called.
ExecuteCalled(raw_offers, reference_price) ==
    /\ pc = "receive_offers"
    /\ state = [target_product |-> TargetProduct, raw_offers |-> raw_offers,
                reference_price |-> reference_price,
                classified_offers |-> <<>>, comparable_offers |-> <<>>,
                excluded_count |-> 0, errors |-> <<>>]
    /\ normalized_offers = <<>>
    /\ target_embedding = <<>>
    /\ semaphore = 0
    /\ tasks = <<>>
    /\ embed_calls = <<>>
    /\ result = None

\* The lists of at most MaxOffers entries that list no entry twice.
RawOfferLists ==
    {offers \in SeqsUpTo(RawEntries, MaxOffers) :
        \A i, j \in 1..Len(offers) : offers[i] = offers[j] => i = j}

InitMatch ==
    /\ AnalyticsIdle
    /\ \E raw_offers \in RawOfferLists, reference_price \in ReferencePrices :
           ExecuteCalled(raw_offers, reference_price)

InitConc ==
    /\ AnalyticsIdle
    /\ ExecuteCalled(ConcOffers, 0)

NextMatch ==
    \/ receive_offers
    \/ classify_products
    \/ target_embedded
    \/ sem_task_enter
    \/ sem_task_embedded
    \/ gather_returns
    \/ filter_comparable
    \/ execute_returns

\* Runs on short lists of any entries.
SpecMatch == InitMatch /\ [][NextMatch]_vars

\* Runs on a list longer than the semaphore admits at once.  The event loop
\* runs every ready task, and an awaited call returns or raises in the end.
FairSpecConc == InitConc /\ [][NextMatch]_vars /\ WF_vars(NextMatch)

(***************************************************************************)
(* sem_task on its own: one offer, the target vector of its run and the    *)
(* outcomes of the calls it awaits.                                        *)
(***************************************************************************)
\* No embedding call was made.
NoEmbedCall == [no_embed_call |-> TRUE]

\* if target_embedding: the embedding call of the offer is made only with a
\* target vector.
EmbeddingOutcomesOf(target_vec) ==
    IF target_vec # <<>> THEN OfferEmbeddingOutcomes ELSE {NoEmbedCall}

\* sem_task(offer): what the task returns.
sem_task(target, offer, reference_price, target_vec, outcome, llm) ==
    IF target_vec # <<>>
    THEN sem_task_result(target, offer, reference_price, target_vec, outcome, llm)
    ELSE _classify_single_product(target, offer, reference_price, llm)

SemTaskCall(target, offer, reference_price, target_vec, outcome, llm) ==
    [op |-> "sem_task", target |-> target, offer |-> offer,
     reference_price |-> reference_price, target_embedding |-> target_vec,
     embedding |-> outcome, llm |-> llm,
     embeds |-> IF target_vec # <<>> THEN sem_task_embeds(target, offer) ELSE <<>>,
     gate   |-> IF target_vec # <<>> THEN gate_of(target_vec, outcome) ELSE "skipped",
     stages |-> IF target_vec # <<>>
                THEN sem_task_stages(target, offer, reference_price, target_vec, outcome)
                ELSE classify_stages(target, offer, reference_price),
     result |-> sem_task(target, offer, reference_price, target_vec, outcome, llm)]

CallSemTask ==
    /\ out = NotCalled
    /\ \E target \in Targets, target_outcome \in TargetEmbeddingOutcomes,
          offer \in ClassifiableOffers, reference_price \in ReferencePrices :
         LET target_vec == IF IsRaised(target_outcome) THEN <<>>
                           ELSE target_outcome.vector
         IN  \E outcome \in EmbeddingOutcomesOf(target_vec),
                llm \in LlmOutcomesOf(target, offer, reference_price) :
                 out' = SemTaskCall(target, offer, reference_price,
                                    target_vec, outcome, llm)
    /\ UNCHANGED <<now, input, first, second, matchVars>>

InitGate ==
    /\ AnalyticsIdle
    /\ MatchingIdle

NextGate == CallSemTask

SpecGate == InitGate /\ [][NextGate]_vars

(***************************************************************************)
(* The statements of the try block after the digit consistency check, on   *)
(* their own: entered with a target, an offer and a reference price, with  *)
(* the outcome of the LLM call when they reach it.  An exception leaves    *)
(* through the except clause of _classify_single_product.                  *)
(***************************************************************************)
LaterStatementsCall(target, offer, reference_price, llm) ==
    [op |-> "later_statements", target |-> target, offer |-> offer,
     reference_price |-> reference_price, llm |-> llm,
     result |-> ExceptException(LaterStatements(target, offer, reference_price, llm),
                                _heuristic_fallback(target, offer))]

CallLaterStatements ==
    /\ out = NotCalled
    /\ \E target \in Targets, offer \in ClassifiableOffers,
          reference_price \in ReferencePrices :
         \E llm \in (IF LaterRules(target, offer, reference_price) = FallsThrough
                      THEN LlmOutcomes ELSE {NoLlmCall}) :
             out' = LaterStatementsCall(target, offer, reference_price, llm)
    /\ UNCHANGED <<now, input, first, second, matchVars>>

NextAdjudicate == CallLaterStatements

SpecAdjudicate == InitGate /\ [][NextAdjudicate]_vars

\* Every path to a classification: a task from its start, and the later
\* statements of _classify_single_product from theirs.
NextClassify ==
    \/ CallSemTask
    \/ CallLaterStatements

SpecClassify == InitGate /\ [][NextClassify]_vars

(***************************************************************************)
(* OrchestratorAgent: the graph research_market -> extract_data ->         *)
(* generate_pricing -> finalize -> END.  pc is the node to run next, state *)
(* the OrchestratorState handed from node to node, out the last call of a  *)
(* sub-agent and result what run returned.  The sub-agents are             *)
(* collaborators: a call returns a dict or raises.                         *)
(***************************************************************************)
\* self.market_research.run: a result with both keys, one with empty lists,
\* one with neither key, an error.
MarketResearchOutcomes ==
    {[competitor_products |-> <<"MLM1", "MLM2">>, raw_results |-> <<"raw1", "raw2">>],
     [competitor_products |-> <<>>, raw_results |-> <<>>],
     [product_name |-> TargetProduct],
     Raised("MarketResearchError")}

\* self.data_extractor.run: products with a positive, a zero and a positive
\* price, no product, a product whose price is None, no key, an error.  A
\* price is Some(amount) or None.
ExtractionOutcomes ==
    {[extracted_products |-> <<[price |-> Some(100)], [price |-> Some(0)],
                               [price |-> Some(110)]>>],
     [extracted_products |-> <<>>],
     [extracted_products |-> <<[price |-> Some(100)], [price |-> None]>>],
     [extraction_errors |-> <<>>],
     Raised("ExtractionError")}

PricingRecommendation ==
    [recommended_price |-> 105, confidence |-> "low", target_percentile |-> 50,
     expected_margin_percent |-> 31, reasoning |-> "median",
     alternative_prices |-> <<100, 105, 110>>, market_position |-> "at_median"]

\* self.pricing_intelligence.run: a recommendation, none, an object without
\* the attributes of a recommendation, no key, an error.  The value of the
\* key is Some(object) or None.
PricingOutcomes ==
    {[recommendation |-> Some(PricingRecommendation)],
     [recommendation |-> None],
     [recommendation |-> Some([recommended_price |-> 105])],
     [errors |-> <<>>],
     Raised("PricingError")}

\* state["errors"].append(f"<phase> error: {str(e)}")
PhaseError(phase, e) == [phase |-> phase, error |-> e.raised]

\* state[key] = value
SetItem(st, key, value) == (key :> value) @@ st

\* del state[key]
DelItem(st, key) == [k \in DOMAIN st \ {key} |-> st[k]]

\* The state a node receives from the graph.  _raw_competitors is not a key
\* of OrchestratorState: the graph hands it on or leaves it out.
HandedOn(st, keeps_undeclared) ==
    IF keeps_undeclared THEN st ELSE DelItem(st, "_raw_competitors")

\* The try block of research_market, given what the sub-agent returned.
ResearchTry(st, research_result) ==
    IF IsRaised(research_result) THEN research_result
    ELSE SetItem([st EXCEPT !.competitor_count =
                                Len(Get(research_result, "competitor_products", <<>>)),
                            !.market_research_complete = TRUE],
                 "_raw_competitors", Get(research_result, "raw_results", <<>>))

\* [p.price for p in extracted_products if p.price > 0]; None > 0 raises.
PositivePrices(extracted_products) ==
    IF \E k \in 1..Len(extracted_products) : extracted_products[k].price = None
    THEN Raised("TypeError")
    ELSE LET kept == SelectSeq(extracted_products, LAMBDA p : p.price[1] > 0)
         IN  [returned |-> [k \in 1..Len(kept) |-> kept[k].price[1]]]

\* The try block of extract_data.
ExtractTry(st, extraction_result) ==
    IF IsRaised(extraction_result) THEN extraction_result
    ELSE LET prices == PositivePrices(Get(extraction_result, "extracted_products", <<>>))
         IN  IF IsRaised(prices) THEN prices
             ELSE [st EXCEPT !.competitor_prices = prices.returned,
                             !.data_extraction_complete = TRUE]

RecommendationAttributes ==
    {"recommended_price", "confidence", "target_percentile", "expected_margin_percent",
     "reasoning", "alternative_prices", "market_position"}

\* The try block of generate_pricing.
PricingTry(st, pricing_result) ==
    IF IsRaised(pricing_result) THEN pricing_result
    ELSE LET recommendation == Get(pricing_result, "recommendation", None)
         IN  IF recommendation = None THEN [st EXCEPT !.pricing_complete = TRUE]
             ELSE IF ~(RecommendationAttributes \subseteq DOMAIN recommendation[1])
             THEN Raised("AttributeError")
             ELSE [st EXCEPT !.final_recommendation =
                                 Some(recommendation[1] @@
                                      [competitor_sample_size |->
                                           Len(st.competitor_prices)]),
                             !.pricing_complete = TRUE]

\* except Exception as e: the error is recorded and the phase marked
\* incomplete.
PhaseExcept(st, tried, phase, flag) ==
    IF IsRaised(tried)
    THEN [st EXCEPT !.errors = Append(@, PhaseError(phase, tried)), ![flag] = FALSE]
    ELSE tried

SkipsPhase_mut_never(st, predecessor) == FALSE

\* if not state.get("<predecessor>_complete"): return state
SkipsPhase(st, predecessor) == ~Get(st, predecessor, FALSE)

OrchestratorIdle ==
    /\ normalized_offers = <<>>
    /\ target_embedding = <<>>
    /\ semaphore = 0
    /\ tasks = <<>>
    /\ embed_calls = <<>>
    /\ result = None

\* run(...) built initial_state and invoked the graph.
RunCalled(cost_price, current_price) ==
    /\ pc = "research_market"
    /\ state = [product_id |-> "P1", product_name |-> TargetProduct,
                product_attributes |-> <<>>, cost_price |-> cost_price,
                current_price |-> current_price, target_margin_percent |-> 30,
                market_research_complete |-> FALSE,
                data_extraction_complete |-> FALSE,
                pricing_complete |-> FALSE,
                competitor_count |-> 0, competitor_prices |-> <<>>,
                final_recommendation |-> None,
                started_at |-> Some(now), completed_at |-> None, errors |-> <<>>]

research_market ==
    /\ pc = "research_market"
    /\ \E research_result \in MarketResearchOutcomes, keeps_undeclared \in BOOLEAN :
           /\ out' = [op |-> "market_research.run", product_name |-> state.product_name,
                      result |-> research_result]
           /\ state' = HandedOn(PhaseExcept(state, ResearchTry(state, research_result),
                                            "Market research error",
                                            "market_research_complete"),
                                keeps_undeclared)
    /\ pc' = "extract_data"
    /\ UNCHANGED <<now, input, first, second>>
    /\ UNCHANGED <<normalized_offers, target_embedding, semaphore, tasks, embed_calls,
                   result>>

extract_data ==
    /\ pc = "extract_data"
    /\ IF SkipsPhase(state, "market_research_complete")
       THEN UNCHANGED <<state, out>>
       ELSE \E extraction_result \in ExtractionOutcomes :
                /\ out' = [op |-> "data_extractor.run",
                           raw_products |-> Get(state, "_raw_competitors", <<>>),
                           result |-> extraction_result]
                /\ state' = PhaseExcept(state, ExtractTry(state, extraction_result),
                                        "Data extraction error",
                                        "data_extraction_complete")
    /\ pc' = "generate_pricing"
    /\ UNCHANGED <<now, input, first, second>>
    /\ UNCHANGED <<normalized_offers, target_embedding, semaphore, tasks, embed_calls,
                   result>>

generate_pricing ==
    /\ pc = "generate_pricing"
    /\ IF SkipsPhase(state, "data_extraction_complete")
       THEN UNCHANGED <<state, out>>
       ELSE \E pricing_result \in PricingOutcomes :
                /\ out' = [op |-> "pricing_intelligence.run",
                           competitor_prices |-> state.competitor_prices,
                           result |-> pricing_result]
                /\ state' = PhaseExcept(state, PricingTry(state, pricing_result),
                                        "Pricing intelligence error",
                                        "pricing_complete")
    /\ pc' = "finalize"
    /\ UNCHANGED <<now, input, first, second>>
    /\ UNCHANGED <<normalized_offers, target_embedding, semaphore, tasks, embed_calls,
                   result>>

finalize ==
    /\ pc = "finalize"
    /\ state' = DelItem([state EXCEPT !.completed_at = Some(now)], "_raw_competitors")
    /\ pc' = "END"
    /\ UNCHANGED analyticsVars
    /\ UNCHANGED <<normalized_offers, target_embedding, semaphore, tasks, embed_calls,
                   result>>

\* final_state = await self.graph.ainvoke(initial_state); return final_state
run_returns ==
    /\ pc = "END"
    /\ result' = state
    /\ pc' = "run_returned"
    /\ UNCHANGED analyticsVars
    /\ UNCHANGED <<state, normalized_offers, target_embedding, semaphore, tasks,
                   embed_calls>>

InitOrchestrator ==
    /\ AnalyticsIdle
    /\ OrchestratorIdle
    /\ \E cost_price \in Costs, current_price \in CurrentPrices :
           RunCalled(cost_price, current_price)

NextOrchestrator ==
    \/ research_market
    \/ extract_data
    \/ generate_pricing
    \/ finalize
    \/ run_returns

SpecOrchestrator == InitOrchestrator /\ [][NextOrchestrator]_vars

(***************************************************************************)
(* Claims about the statistics and recommendation engine.                  *)
(***************************************************************************)
Recommended(o) ==
    /\ o.op = "generate_recommendation"
    /\ ~IsRaised(o.result)

\* C1 (as stated): margin floor -- for a non-empty competitor list every
\* returned recommended_price is at least cost_price * (1 + margin/100).
C1_MarginFloor ==
    (Recommended(out) /\ out.competitor_prices # <<>>)
        => 100 * out.result.recommended_price
               >= min_viable_price(out.cost_price, out.target_margin_percent)

C3_StructuredFailures ==
    /\ out.op = "calculate_stats"
          => /\ ~IsRaised(out.result)
             /\ out.result.success <=> out.prices # <<>>
             /\ ~out.result.success => "error" \in DOMAIN out.result
    /\ out.op = "get_percentile"
          => /\ ~IsRaised(out.result)
             /\ out.result.success
                    <=> (out.prices # <<>> /\ 0 <= out.percentile /\ out.percentile <= 100)
             /\ ~out.result.success => "error" \in DOMAIN out.result

\* get_percentile was called on a non-empty list with p > 100 and failed.
C3_Witness ==
    /\ out.op = "get_percentile"
    /\ out.prices # <<>>
    /\ out.percentile > 100
    /\ ~IsRaised(out.result)
    /\ ~out.result.success
    /\ "error" \in DOMAIN out.result

\* C10 (as stated): two calls of calculate_stats on the same list return
\* identical results in every field.
C10_Idempotent ==
    second # NotCalled => second.result = first.result

\* C10 (amended): two calls of calculate_stats on the same list return the
\* same fields, with identical values in every field except timestamp.
C10_IdempotentButTimestamp ==
    second # NotCalled
        => /\ DOMAIN second.result = DOMAIN first.result
           /\ \A f \in DOMAIN first.result \ {"timestamp"} :
                  second.result[f] = first.result[f]

\* Both calls were made on a non-empty list, at different clock values.
C10_Witness ==
    /\ second # NotCalled
    /\ input # <<>>
    /\ second.result.timestamp # first.result.timestamp

(***************************************************************************)
(* Claims about the matching agent.                                        *)
(***************************************************************************)
\* The offer occurs in the list of offers.
Appears(o, offers) == \E j \in 1..Len(offers) : offers[j] = o

TitlesUnique(offers) ==
    \A i, j \in 1..Len(offers) : offers[i].title = offers[j].title => i = j

\* C4 (as stated): partition by comparability -- after execute() an input
\* offer appears in comparable_offers if and only if the classification
\* produced for that same offer is comparable, titles unique or not.
C4_OwnClassification ==
    pc = "returned"
        => \A i \in 1..Len(state.raw_offers) :
               Appears(state.raw_offers[i], result.comparable_offers)
                   <=> result.classifications[i].is_comparable

\* C4 (amended): partition by title -- after execute() an input offer appears
\* in comparable_offers if and only if some classification of the run with
\* the same title is comparable, so offers that share a title are kept or
\* excluded together; when the titles are unique this is the offer's own
\* classification.  Every comparable offer is an input offer.
C4_PartitionByTitle ==
    pc = "returned"
        => /\ \A i \in 1..Len(state.raw_offers) :
                  Appears(state.raw_offers[i], result.comparable_offers)
                      <=> \E k \in 1..Len(result.classifications) :
                              /\ result.classifications[k].title
                                     = state.raw_offers[i].title
                              /\ result.classifications[k].is_comparable
           /\ \A j \in 1..Len(result.comparable_offers) :
                  Appears(result.comparable_offers[j], state.raw_offers)
           /\ TitlesUnique(state.raw_offers)
                  => \A i \in 1..Len(state.raw_offers) :
                         Appears(state.raw_offers[i], result.comparable_offers)
                             <=> result.classifications[i].is_comparable

\* A run returned on two offers with one title, one classified comparable
\* and the other not, and both are in comparable_offers.
C4_Witness ==
    /\ pc = "returned"
    /\ \E i, j \in 1..Len(state.raw_offers) :
           /\ state.raw_offers[i].title = state.raw_offers[j].title
           /\ result.classifications[i].is_comparable
           /\ ~result.classifications[j].is_comparable
           /\ Appears(state.raw_offers[i], result.comparable_offers)
           /\ Appears(state.raw_offers[j], result.comparable_offers)

\* An excluded offer without its exclusion_reason field.
OriginalRecord(e) == [f \in DOMAIN e \ {"exclusion_reason"} |-> e[f]]

\* C5 (as stated): excluded_offers is exactly the remaining offers -- each
\* input offer classified non-comparable appears in excluded_offers exactly
\* once, as its own record plus its own classification's reason; no offer is
\* in both comparable_offers and excluded_offers, every input offer is in one
\* of them, and len(excluded_offers) = excluded_count.
C5_ExcludedExactlyRemaining ==
    pc = "returned"
        => LET raw == state.raw_offers
               cls == result.classifications
               exc == result.excluded_offers
               Entry(i) == [exclusion_reason |-> cls[i].reason] @@ raw[i]
           IN  /\ \A i \in 1..Len(raw) :
                      ~cls[i].is_comparable
                          => Cardinality({k \in 1..Len(exc) : exc[k] = Entry(i)})
                                 = Cardinality({j \in 1..Len(raw) :
                                                   /\ ~cls[j].is_comparable
                                                   /\ Entry(j) = Entry(i)})
               /\ \A k \in 1..Len(exc) :
                      ~Appears(OriginalRecord(exc[k]), result.comparable_offers)
               /\ \A i \in 1..Len(raw) :
                      \/ Appears(raw[i], result.comparable_offers)
                      \/ \E k \in 1..Len(exc) : OriginalRecord(exc[k]) = raw[i]
               /\ Len(exc) = result.excluded_count

\* C6: bounded concurrency -- at every moment of classify_products at most 5
\* tasks are inside the semaphore awaiting their call, and the task of every
\* offer eventually gets to run.
C6_BoundedConcurrency ==
    /\ [](Cardinality(InFlight(tasks)) <= SemaphoreLimit)
    /\ \A i \in 1..NumConcOffers : <>(Len(tasks) >= i /\ tasks[i].pc # "pending")

\* Five tasks are awaiting their embedding and another task has not entered.
C6_Witness ==
    /\ Cardinality(InFlight(tasks)) = SemaphoreLimit
    /\ \E i \in 1..Len(tasks) : tasks[i].pc = "pending"

\* What sem_task can return for an offer, over the outcomes of its call.
PossibleResults(offer) ==
    {sem_task_result(state.target_product, offer, state.reference_price,
                     target_embedding, outcome, NoLlmCall) :
         outcome \in OfferEmbeddingOutcomes}
        \cup {_classify_single_product(state.target_product, offer,
                                       state.reference_price, NoLlmCall)}

\* C7: result order and join barrier -- the i-th classification is the
\* result of the task of the i-th normalized offer and classifies that offer,
\* whatever the order the tasks completed in; the list is written only once
\* every task has completed.
C7_ResultOrder ==
    /\ pc \in {"filter_comparable", "build_result", "returned"}
           => /\ AllDone(tasks)
              /\ Len(state.classified_offers) = Len(normalized_offers)
              /\ \A i \in 1..Len(normalized_offers) :
                     /\ state.classified_offers[i] = tasks[i].result
                     /\ state.classified_offers[i].item_id = normalized_offers[i].item_id
                     /\ state.classified_offers[i].title = normalized_offers[i].title
                     /\ state.classified_offers[i] \in PossibleResults(normalized_offers[i])
    /\ pc \in {"receive_offers", "classify_products", "embed_target", "gather"}
           => state.classified_offers = <<>>
    /\ pc = "returned" => result.classifications = state.classified_offers

\* A run returned whose second task completed before the first, with
\* different classifications for the two offers.
C7_Witness ==
    /\ pc = "returned"
    /\ Len(tasks) >= 2
    /\ tasks[2].completed_first
    /\ result.classifications[1] # result.classifications[2]
    /\ result.classifications[1].title = normalized_offers[1].title

\* The task went through _classify_single_product (the embedding check did
\* not reject the offer).
Adjudicated(task) ==
    /\ task.pc = "done"
    /\ ~IsRaised(task.result) => task.result.reason.text # "Semantic Mismatch (AI)"

\* C8: the adjudicator never raises -- every finished task holds a
\* classification; when the try block of _classify_single_product raised,
\* the result is the heuristic classification with confidence 0.5; and no
\* failure of a collaborator aborts the run (a run only raises on an entry
\* that is not a dict).
C8_AdjudicatorNeverRaises ==
    /\ \A i \in 1..Len(tasks) :
           tasks[i].pc = "done"
               => /\ ~IsRaised(tasks[i].result)
                  /\ tasks[i].result.item_id = normalized_offers[i].item_id
                  /\ (Adjudicated(tasks[i])
                         /\ IsRaised(TryClassifyOf[state.target_product,
                                                   normalized_offers[i]]))
                        => /\ tasks[i].result
                                  = HeuristicFallbackOf[state.target_product,
                                                        normalized_offers[i]]
                           /\ tasks[i].result.confidence = 50
                           /\ tasks[i].result.reason = [text |-> "Heuristic Fallback"]
    /\ pc = "raised" => \E k \in 1..Len(state.raw_offers) :
                            ~isinstance_dict(state.raw_offers[k])

\* A task went through _classify_single_product after its embedding call,
\* the try block raised, and the task holds the heuristic classification.
C8_Witness ==
    \E i \in 1..Len(tasks) :
        /\ tasks[i].pc = "done"
        /\ tasks[i].embedded
        /\ IsRaised(TryClassifyOf[state.target_product, normalized_offers[i]])
        /\ tasks[i].result.reason = [text |-> "Heuristic Fallback"]
        /\ tasks[i].result.confidence = 50

\* C9 (as stated): non-fatal normalization -- when raw_offers holds an entry
\* that is neither a dict nor an object with to_dict, the entry is dropped,
\* execute() does not raise, and it returns the classifications of the
\* remaining offers.
C9_NonFatalNormalization ==
    (\E k \in 1..Len(state.raw_offers) :
         /\ ~hasattr_to_dict(state.raw_offers[k])
         /\ ~isinstance_dict(state.raw_offers[k]))
        => /\ pc # "raised"
           /\ pc = "returned"
                  => Len(result.classifications) = Len(normalized_offers)

\* The two get_percentile calls of SpecSummary both succeeded.
BothPercentiles ==
    /\ first # NotCalled /\ first.result.success
    /\ second # NotCalled /\ second.result.success

\* calculate_stats was called on a non-empty list.
Summarised == out # NotCalled /\ out.op = "calculate_stats" /\ out.result.success

\* C11: percentile monotonicity -- for a non-empty list and p1 < p2 in
\* [0, 100], get_percentile(P, p1).value <= get_percentile(P, p2).value, and
\* calculate_stats returns min <= q1 <= median <= q3 <= max.
C11_PercentileMonotone ==
    /\ (BothPercentiles /\ first.result.percentile < second.result.percentile)
           => first.result.value <= second.result.value
    /\ Summarised => /\ out.result.min <= out.result.q1
                     /\ out.result.q1 <= out.result.median
                     /\ out.result.median <= out.result.q3
                     /\ out.result.q3 <= out.result.max

\* Two percentiles of a list given in descending order differ strictly, and
\* the quartiles of that list are strictly apart.
C11_Witness ==
    /\ BothPercentiles
    /\ first.result.percentile < second.result.percentile
    /\ first.result.value < second.result.value
    /\ Len(input) >= 2 /\ input[1] > input[2]
    /\ Summarised
    /\ out.result.min < out.result.q1
    /\ out.result.q3 < out.result.max

AllIdentical(prices) == prices # <<>> /\ \A i \in 1..Len(prices) : prices[i] = prices[1]

\* C12 (as stated): for every non-empty list of identical values,
\* calculate_stats returns outliers_removed = 0, sample_size_clean =
\* sample_size and std_dev = 0.
C12_IdenticalZeroSpread ==
    (Summarised /\ AllIdentical(out.prices))
        => /\ out.result.outliers_removed = 0
           /\ out.result.sample_size_clean = out.result.sample_size
           /\ out.result.std_dev.zero

\* The values the target and the title carry in the category are both
\* non-empty and share no value.
DisjointValues(category, target, title) ==
    /\ ExtractSpecsOf[target][category] # {}
    /\ ExtractSpecsOf[title][category] # {}
    /\ ExtractSpecsOf[target][category] \cap ExtractSpecsOf[title][category] = {}

\* C13: spec-conflict rule -- an offer that reaches the rules and has, in
\* some category, values that are non-empty on both sides and disjoint is
\* rejected with confidence 0.99 and a reason naming such a category with the
\* two value sets; a category in which either side has no value never causes
\* the rejection.
C13_SpecConflictRule ==
    \A i \in 1..Len(tasks) :
        Adjudicated(tasks[i])
            => /\ (\E c \in DOMAIN SpecPatterns :
                       DisjointValues(c, state.target_product, normalized_offers[i].title))
                      => /\ ~tasks[i].result.is_comparable
                         /\ tasks[i].result.confidence = 99
                         /\ tasks[i].result.reason.text = "Spec Mismatch"
               /\ tasks[i].result.reason.text = "Spec Mismatch"
                      => /\ DisjointValues(tasks[i].result.reason.category,
                                           state.target_product,
                                           normalized_offers[i].title)
                         /\ tasks[i].result.reason.target
                                = ExtractSpecsOf[state.target_product]
                                                [tasks[i].result.reason.category]
                         /\ tasks[i].result.reason.offer
                                = ExtractSpecsOf[normalized_offers[i].title]
                                                [tasks[i].result.reason.category]

\* One offer was rejected for its size (12 against 8) and another, which
\* names no power while the target does, went past the rule.
C13_Witness ==
    \E i, j \in 1..Len(tasks) :
        /\ Adjudicated(tasks[i])
        /\ tasks[i].result.reason.text = "Spec Mismatch"
        /\ tasks[i].result.reason.category = "size"
        /\ tasks[i].result.confidence = 99
        /\ Adjudicated(tasks[j])
        /\ ExtractSpecsOf[state.target_product]["power"] # {}
        /\ ExtractSpecsOf[normalized_offers[j].title]["power"] = {}
        /\ tasks[j].result.reason.text # "Spec Mismatch"

\* The conditions of the rules on the offer of task i.
ConditionsOf(i) == RuleConditionsOf[state.target_product, normalized_offers[i].title]

\* C14 (as stated): price-ratio rule -- an offer that reaches the rules and
\* is not rejected by the spec-conflict, token-overlap, digit or keyword
\* rule, with reference_price > 0 and price > 0, is rejected with
\* is_accessory and confidence 0.95 when price/reference_price < 0.4, rejected
\* with is_bundle and confidence 0.95 when the ratio is above 3.5, and not
\* rejected by this rule otherwise.
C14_PriceRatioRule ==
    \A i \in 1..Len(tasks) :
        (/\ Adjudicated(tasks[i])
         /\ ~ConditionsOf(i).conflict
         /\ ~ConditionsOf(i).low_overlap
         /\ ConditionsOf(i).digits
         /\ ConditionsOf(i).keywords)
            => /\ PriceTooLow(normalized_offers[i].price, state.reference_price)
                      => /\ ~tasks[i].result.is_comparable
                         /\ tasks[i].result.is_accessory
                         /\ tasks[i].result.confidence = 95
               /\ PriceTooHigh(normalized_offers[i].price, state.reference_price)
                      => /\ ~tasks[i].result.is_comparable
                         /\ tasks[i].result.is_bundle
                         /\ tasks[i].result.confidence = 95
               /\ (/\ ~PriceTooLow(normalized_offers[i].price, state.reference_price)
                   /\ ~PriceTooHigh(normalized_offers[i].price, state.reference_price))
                      => tasks[i].result.reason.text # "Price Safety"

\* The confidence and reason of the first rule, in the order of the chain,
\* whose condition holds; None when no rule rejects.
FirstRule(conditions, price, reference_price) ==
    IF conditions.conflict THEN Some([confidence |-> 99, text |-> "Spec Mismatch"])
    ELSE IF conditions.low_overlap
    THEN Some([confidence |-> 90, text |-> "Semantic Mismatch: Low token overlap"])
    ELSE IF ~conditions.digits THEN Some([confidence |-> 95, text |-> "Digit Mismatch"])
    ELSE IF ~conditions.keywords
    THEN Some([confidence |-> 98, text |-> "Keyword Mismatch"])
    ELSE IF PriceTooLow(price, reference_price) \/ PriceTooHigh(price, reference_price)
    THEN Some([confidence |-> 95, text |-> "Price Safety"])
    ELSE IF conditions.bundle THEN Some([confidence |-> 90, text |-> "Bundle Mismatch"])
    ELSE None

\* C15 (as stated): ordered short-circuit rule chain -- an offer that reaches
\* the rules and on which some rule's condition holds is rejected with the
\* confidence and reason of the first such rule in the order spec conflict
\* (0.99), token overlap (0.90), digit consistency (0.95), essential keywords
\* (0.98), price ratio (0.95), bundle keywords (0.90).
C15_OrderedRuleChain ==
    \A i \in 1..Len(tasks) :
        (/\ Adjudicated(tasks[i])
         /\ FirstRule(ConditionsOf(i), normalized_offers[i].price,
                      state.reference_price) # None)
            => /\ ~tasks[i].result.is_comparable
               /\ tasks[i].result.confidence
                      = FirstRule(ConditionsOf(i), normalized_offers[i].price,
                                  state.reference_price)[1].confidence
               /\ tasks[i].result.reason.text
                      = FirstRule(ConditionsOf(i), normalized_offers[i].price,
                                  state.reference_price)[1].text

\* generate_recommendation returned a result for a non-empty competitor list.
Positioned ==
    /\ Recommended(out)
    /\ out.competitor_prices # <<>>

\* The statistic a tier is compared with: p25, the median, p75.
TierStatistic(stats_result, tier) ==
    IF tier = 25 THEN stats_result.percentiles[25]
    ELSE IF tier = 50 THEN stats_result.median
    ELSE stats_result.percentiles[75]

TierLabel(tier) ==
    IF tier = 25 THEN "budget"
    ELSE IF tier = 50 THEN "competitive"
    ELSE IF tier = 75 THEN "premium"
    ELSE "luxury"

\* C16: auto-selected tier -- with no target percentile and a non-empty
\* competitor list, the chosen percentile is the smallest of 25, 50, 75 whose
\* statistic (p25, median, p75) is at least min_viable = cost * (1 + m/100),
\* and 90 when there is none; market_position is budget, competitive, premium
\* or luxury accordingly.
C16_AutoTier ==
    (Positioned /\ out.target_percentile = None)
        => LET mv    == min_viable_price(out.cost_price, out.target_margin_percent)
               fits  == {tier \in {25, 50, 75} :
                            TierStatistic(out.result.statistics, tier) >= mv}
               tier  == IF fits = {} THEN 90
                        ELSE CHOOSE x \in fits : \A y \in fits : x <= y
           IN  /\ out.result.target_percentile = tier
               /\ out.result.market_position = TierLabel(tier)

\* The margin floor lies above the median and not above p75: the tier is 75.
C16_Witness ==
    /\ Positioned
    /\ out.target_percentile = None
    /\ min_viable_price(out.cost_price, out.target_margin_percent)
           > out.result.statistics.median
    /\ min_viable_price(out.cost_price, out.target_margin_percent)
           <= out.result.statistics.percentiles[75]
    /\ out.result.target_percentile = 75
    /\ out.result.market_position = "premium"

\* C17: caller-specified percentile -- the result carries the caller's
\* percentile t unchanged and market_position is budget for t <= 30,
\* competitive for 30 < t <= 60, premium for 60 < t <= 80, luxury above.
C17_CallerPercentile ==
    (Positioned /\ out.target_percentile # None)
        => /\ out.result.target_percentile = out.target_percentile[1]
           /\ out.target_percentile[1] <= 30 => out.result.market_position = "budget"
           /\ (30 < out.target_percentile[1] /\ out.target_percentile[1] <= 60)
                  => out.result.market_position = "competitive"
           /\ (60 < out.target_percentile[1] /\ out.target_percentile[1] <= 80)
                  => out.result.market_position = "premium"
           /\ out.target_percentile[1] > 80 => out.result.market_position = "luxury"

\* The caller asked for the 60th percentile and the label is competitive.
C17_Witness ==
    /\ Positioned
    /\ out.target_percentile = Some(60)
    /\ out.result.target_percentile = 60
    /\ out.result.market_position = "competitive"

\* C18: confidence label -- for a non-empty competitor list the label is
\* high iff sample_size >= 30 and cv < 0.3, otherwise medium iff sample_size
\* >= 15 and cv < 0.5, otherwise low; fewer than 15 prices always give low.
\* The cv is compared through its square, var / mean^2.
C18_ConfidenceLabel ==
    Positioned
        => LET n    == Len(out.competitor_prices)
               cv2  == CvSquared(out.competitor_prices)
               high == n >= 30 /\ 100 * cv2.num < 9 * cv2.den
               med  == ~high /\ n >= 15 /\ 4 * cv2.num < cv2.den
           IN  /\ out.result.confidence = "high" <=> high
               /\ out.result.confidence = "medium" <=> med
               /\ out.result.confidence = "low" <=> (~high /\ ~med)
               /\ out.result.confidence \in {"low", "medium", "high"}
               /\ n < 15 => out.result.confidence = "low"

\* Thirty prices with a cv between 0.3 and 0.5: the label is medium.
C18_Witness ==
    /\ Positioned
    /\ Len(out.competitor_prices) >= 30
    /\ ~CvBelow3Tenth(out.result.statistics.cv)
    /\ CvBelowHalf(out.result.statistics.cv)
    /\ out.result.confidence = "medium"

\* C19 (as stated): alternatives -- a recommendation for a non-empty
\* competitor list carries exactly 3 prices, the price at percentile
\* max(0, t - 15), the price at the target percentile t and the price at
\* percentile min(100, t + 15) (each to two decimals), in ascending order.
C19_Alternatives ==
    Positioned
        => LET t == out.result.target_percentile
           IN  /\ Len(out.result.alternatives) = 3
               /\ out.result.alternatives[1]
                      = round2(np_percentile(out.competitor_prices, Max(0, t - 15)))
               /\ out.result.alternatives[2]
                      = round2(np_percentile(out.competitor_prices, t))
               /\ out.result.alternatives[3]
                      = round2(np_percentile(out.competitor_prices, Min(100, t + 15)))
               /\ out.result.alternatives[1] <= out.result.alternatives[2]
               /\ out.result.alternatives[2] <= out.result.alternatives[3]

\* C20: frame condition on the inputs -- no step of a matching run changes
\* the caller's offers: raw_offers keeps its length, its order and every
\* record's fields and values, and no raw offer gains an exclusion_reason
\* (the reason is only on the copies in excluded_offers).
C20_OffersNotMutated ==
    [][/\ state'.raw_offers = state.raw_offers
       /\ \A k \in 1..Len(state'.raw_offers) :
              "exclusion_reason" \notin DOMAIN state'.raw_offers[k]]_vars

\* A run returned an excluded offer: the copy carries the reason, and the raw
\* offer it was copied from has the fields it was given.
C20_Witness ==
    /\ pc = "returned"
    /\ result.excluded_offers # <<>>
    /\ \E k \in 1..Len(state.raw_offers) :
           /\ DOMAIN state.raw_offers[k] = {"item_id", "title", "price"}
           /\ \E e \in 1..Len(result.excluded_offers) :
                  /\ "exclusion_reason" \in DOMAIN result.excluded_offers[e]
                  /\ \A f \in DOMAIN state.raw_offers[k] :
                         result.excluded_offers[e][f] = state.raw_offers[k][f]

\* C21 (as stated): no fatal conditions in the recommendation engine --
\* generate_recommendation returns a structured result (a dict with a success
\* field) and raises nothing, for every cost_price >= 0, every competitor
\* list and every target_percentile, values outside [0, 100] included.
C21_NeverRaises ==
    out.op = "generate_recommendation"
        => /\ ~IsRaised(out.result)
           /\ "success" \in DOMAIN out.result

(***************************************************************************)
(* Claims about the stages of the matching pipeline.                       *)
(***************************************************************************)
\* The classification was returned by the embedding check of sem_task.
GateRejection(classification) ==
    /\ ~IsRaised(classification)
    /\ classification.reason.text = "Semantic Mismatch (AI)"

\* The classification was returned by a rule of _classify_single_product.
RuleRejection(classification) ==
    /\ ~IsRaised(classification)
    /\ classification.reason.text \in
           {"Spec Mismatch", "Semantic Mismatch: Low token overlap", "Digit Mismatch",
            "Keyword Mismatch", "Price Safety: too low", "Price Safety: too high",
            "Bundle Mismatch"}

\* C22: first stage wins -- for each offer the stages run in the order
\* semantic gate, rules, LLM, and no stage runs after the one that produced
\* the classification: an offer rejected by the gate runs neither the rules
\* nor the LLM, an offer rejected by a rule does not call the LLM, and the
\* run holds exactly one classification per normalized offer, in their order.
C22_FirstStageWins ==
    /\ \A i \in 1..Len(tasks) :
           tasks[i].pc = "done"
               => /\ tasks[i].stages \in {<<>>, <<"rules">>, <<"rules", "llm">>}
                  /\ GateRejection(tasks[i].result) <=> tasks[i].stages = <<>>
                  /\ GateRejection(tasks[i].result) => tasks[i].embedded
                  /\ RuleRejection(tasks[i].result) => tasks[i].stages = <<"rules">>
    /\ pc \in {"filter_comparable", "build_result", "returned"}
           => /\ Len(state.classified_offers) = Len(normalized_offers)
              /\ \A k \in 1..Len(normalized_offers) :
                     /\ state.classified_offers[k] = tasks[k].result
                     /\ state.classified_offers[k].title = normalized_offers[k].title

\* A run returned with an offer rejected by the gate, which ran no later
\* stage, and an offer rejected by a rule, which ran the rules only.
C22_Witness ==
    /\ pc = "returned"
    /\ \E i, j \in 1..Len(tasks) :
           /\ GateRejection(tasks[i].result)
           /\ tasks[i].stages = <<>>
           /\ RuleRejection(tasks[j].result)
           /\ tasks[j].embedded
           /\ tasks[j].stages = <<"rules">>
    /\ Len(result.classifications) = Len(normalized_offers)

\* C23 (as stated): deferral to the LLM -- an offer that passes the semantic
\* gate and on which none of the six rules fires proceeds to the LLM call,
\* and the classification of such an offer is the LLM's verdict.
C23_DeferralToLlm ==
    \A i \in 1..Len(tasks) :
        (/\ Adjudicated(tasks[i])
         /\ FirstRule(ConditionsOf(i), normalized_offers[i].price,
                      state.reference_price) = None)
            => /\ tasks[i].stages = <<"rules", "llm">>
               /\ tasks[i].result.reason.text # "Heuristic Fallback"

(***************************************************************************)
(* Claims about sem_task on its own.                                       *)
(***************************************************************************)
\* The call had both embeddings, and a similarity that is a number.
BothEmbedded(call) ==
    /\ call.op = "sem_task"
    /\ call.target_embedding # <<>>
    /\ ~IsRaised(call.embedding)
    /\ _calculate_cosine_similarity(call.target_embedding, call.embedding.vector) # NaN

\* 4 * dot < norm1 * norm2, on the squares: the similarity is below 1/4.
BelowQuarter(similarity) ==
    \/ similarity.dot < 0
    \/ 16 * similarity.dot * similarity.dot < similarity.norms_squared

\* C24: semantic gate threshold -- with both embeddings available, an offer
\* whose cosine similarity to the target is strictly below 0.25 is rejected
\* with all three flags false and confidence 0.85 before any rule or LLM
\* stage runs; an offer whose similarity is 0.25 or more, exactly 0.25
\* included, is not rejected by the gate and goes on to the rules.
C24_GateThreshold ==
    BothEmbedded(out)
        => LET similarity == _calculate_cosine_similarity(out.target_embedding,
                                                          out.embedding.vector)
           IN  IF BelowQuarter(similarity)
               THEN /\ out.gate = "rejected"
                    /\ out.result = ProductClassification(out.offer, FALSE, FALSE, FALSE, 85,
                                        [text |-> "Semantic Mismatch (AI)",
                                         similarity |-> similarity])
                    /\ out.stages = <<>>
               ELSE /\ out.gate = "passed"
                    /\ ~GateRejection(out.result)
                    /\ out.stages # <<>>
                    /\ out.stages[1] = "rules"
                    /\ out.result = _classify_single_product(out.target, out.offer,
                                        out.reference_price, out.llm)

\* An offer whose similarity is exactly 0.25 (dot 4, norms 4 and 4) went on
\* to the rules.
C24_Witness ==
    /\ BothEmbedded(out)
    /\ out.embedding.vector = <<1, 3, 2, 1, 1>>
    /\ 16 * np_dot(out.target_embedding, out.embedding.vector)
             * np_dot(out.target_embedding, out.embedding.vector)
           = SumSquares(out.target_embedding) * SumSquares(out.embedding.vector)
    /\ out.gate = "passed"
    /\ out.stages[1] = "rules"

\* C26: embedding failures never reject or abort -- without a target vector
\* (its embedding failed) a task makes no embedding call and no semantic
\* rejection; when the embedding call of the offer fails, the gate is
\* skipped for that offer; in both cases the task returns what
\* _classify_single_product returns for the offer, and raises nothing.
C26_EmbeddingFailures ==
    out.op = "sem_task"
        => /\ out.target_embedding = <<>>
                  => /\ out.embeds = <<>>
                     /\ out.embedding = NoEmbedCall
                     /\ out.gate = "skipped"
           /\ (out.target_embedding # <<>> /\ IsRaised(out.embedding))
                  => /\ out.embeds = <<EmbedCall("offer", out.offer.title)>>
                     /\ out.gate = "failed"
           /\ (out.target_embedding = <<>> \/ IsRaised(out.embedding))
                  => /\ ~IsRaised(out.result)
                     /\ ~GateRejection(out.result)
                     /\ out.stages # <<>>
                     /\ out.stages[1] = "rules"
                     /\ out.result = _classify_single_product(out.target, out.offer,
                                         out.reference_price, out.llm)

\* The embedding call of an offer raised, and the offer was classified by
\* the stages after the gate.
C26_Witness ==
    /\ out.op = "sem_task"
    /\ out.target_embedding # <<>>
    /\ IsRaised(out.embedding)
    /\ out.gate = "failed"
    /\ out.stages[1] = "rules"
    /\ out.result.reason.text \in {"Heuristic Fallback", "Spec Mismatch"}

\* The positions of embed_calls that embedded the target text.
TargetEmbedCalls == {k \in 1..Len(embed_calls) : embed_calls[k].of = "target"}

CategoryWords ==
    [comparable     |-> <<"c", "o", "m", "p", "a", "r", "a", "b", "l", "e">>,
     accessory      |-> <<"a", "c", "c", "e", "s", "s", "o", "r", "y">>,
     bundle         |-> <<"b", "u", "n", "d", "l", "e">>,
     not_comparable |-> <<"n", "o", "t", "_", "c", "o", "m", "p", "a", "r", "a", "b", "l", "e">>]

\* The text names the category: its word occurs in it, and for comparable
\* the occurrence is not the tail of not_comparable.
Names(content, category) ==
    \E i \in 1..Len(content) :
        /\ StartsWithAt(content, i, CategoryWords[category])
        /\ category = "comparable"
               => ~(i > 4 /\ StartsWithAt(content, i - 4, <<"n", "o", "t", "_">>))

\* The call reached the LLM, whose response is not a JSON object.
Unparsable(call) ==
    /\ call.op = "later_statements"
    /\ call.llm # NoLlmCall
    /\ ~IsRaised(call.llm)
    /\ LET data == json_loads(CleanContent(call.llm.content))
       IN  IsRaised(data) \/ data.type # "dict"

\* The flags of a classification into the category.
FlagsOf(category) ==
    [is_comparable |-> category = "comparable", is_accessory |-> category = "accessory",
     is_bundle |-> category = "bundle"]

PathOf(call) ==
    IF GateRejection(call.result) THEN "gate"
    ELSE IF RuleRejection(call.result) THEN "rule"
    ELSE IF call.result.reason.text = "Heuristic Fallback" THEN "heuristic"
    ELSE IF call.result.reason.text = "Regex fallback" THEN "parse fallback"
    ELSE "verdict"

\* C29: flag consistency -- every classification, whichever path produced it
\* (semantic gate, a rule, the LLM's verdict, the parse fallback, the
\* heuristic fallback), has is_accessory and is_bundle false when
\* is_comparable is true, and the rejections of the gate and of the rules
\* have is_comparable false.
C29_FlagConsistency ==
    out.op \in {"sem_task", "later_statements"}
        => /\ ~IsRaised(out.result)
           /\ out.result.is_comparable
                  => ~out.result.is_accessory /\ ~out.result.is_bundle
           /\ PathOf(out) \in {"gate", "rule"} => ~out.result.is_comparable

\* The heuristic fallback classified an offer whose title has a bundle word
\* and no accessory word: is_bundle, and not comparable.
C29_Witness ==
    /\ out.op = "sem_task"
    /\ PathOf(out) = "heuristic"
    /\ out.result.is_bundle
    /\ ~out.result.is_accessory
    /\ ~out.result.is_comparable

(***************************************************************************)
(* Claims about the outlier filter of calculate_stats.                     *)
(***************************************************************************)
\* The positions of the list whose value lies strictly outside
\* [q1 - 1.5 * iqr, q3 + 1.5 * iqr], the quartiles being those of the result.
StrictlyOutside(prices, stats_result) ==
    {k \in 1..Len(prices) :
        \/ 2 * 100 * prices[k] < 2 * stats_result.q1 - 3 * stats_result.iqr
        \/ 2 * 100 * prices[k] > 2 * stats_result.q3 + 3 * stats_result.iqr}

\* C28: outlier filtering never empties the sample -- for every non-empty
\* price list calculate_stats yields sample_size_clean >= 1 and
\* sample_size_clean + outliers_removed = sample_size, the removed values
\* are the ones strictly outside [Q1 - 1.5*IQR, Q3 + 1.5*IQR], and
\* clean_stats is defined.
C28_OutliersNeverEmpty ==
    (out.op = "calculate_stats" /\ out.prices # <<>>)
        => /\ out.result.success
           /\ out.result.sample_size = Len(out.prices)
           /\ out.result.sample_size_clean >= 1
           /\ out.result.sample_size_clean + out.result.outliers_removed
                  = out.result.sample_size
           /\ out.result.outliers_removed
                  = Cardinality(StrictlyOutside(out.prices, out.result))
           /\ out.result.clean_stats.mean # NaN
           /\ out.result.clean_stats.median # NaN

\* A list with Q1 = Q3 lost the value below and the value above the
\* quartiles, and kept the three values on the bounds.
C28_Witness ==
    /\ out.op = "calculate_stats"
    /\ out.prices = <<10, 100, 100, 100, 500>>
    /\ out.result.iqr = 0
    /\ out.result.outliers_removed = 2
    /\ out.result.sample_size_clean = 3

(***************************************************************************)
(* Claims about the orchestrator.                                          *)
(***************************************************************************)
\* The flag a phase sets, and the phase that follows it.
PhaseFlag ==
    [research_market  |-> "market_research_complete",
     extract_data     |-> "data_extraction_complete",
     generate_pricing |-> "pricing_complete"]

NextPhase ==
    [research_market |-> "extract_data", extract_data |-> "generate_pricing",
     generate_pricing |-> "finalize", finalize |-> "END", END |-> "run_returned"]

\* The step called a sub-agent (each phase calls its own).
CalledSubAgent == out' # out

\* C30: phase gating in OrchestratorAgent.run -- the phases run in the order
\* research_market, extract_data, generate_pricing, finalize; an exception of
\* a sub-agent is caught, recorded in errors, and leaves the flag of its
\* phase false; a phase whose predecessor is incomplete calls no sub-agent
\* and changes nothing; so pricing_complete implies data_extraction_complete
\* implies market_research_complete, final_recommendation is set only with
\* pricing_complete, and finalize always runs: the returned state has
\* completed_at set and no _raw_competitors key.
C30_PhaseGating ==
    /\ [](/\ state.pricing_complete => state.data_extraction_complete
          /\ state.data_extraction_complete => state.market_research_complete
          /\ state.final_recommendation # None => state.pricing_complete
          /\ pc \in {"END", "run_returned"}
                 => /\ state.completed_at # None
                    /\ "_raw_competitors" \notin DOMAIN state
          /\ pc = "run_returned" => result = state)
    /\ [][pc' = NextPhase[pc]]_vars
    /\ [][/\ (pc = "extract_data" /\ ~state.market_research_complete)
                 => (state' = state /\ ~CalledSubAgent)
          /\ (pc = "generate_pricing" /\ ~state.data_extraction_complete)
                 => (state' = state /\ ~CalledSubAgent)]_vars
    /\ [][(CalledSubAgent /\ IsRaised(out'.result))
              => /\ state'.errors # <<>>
                 /\ Len(state'.errors) = Len(state.errors) + 1
                 /\ state'.errors[Len(state'.errors)].error = out'.result.raised
                 /\ ~state'[PhaseFlag[pc]]]_vars

\* A run whose market research raised: the error is recorded, the two later
\* phases were skipped, and finalize ran.
C30_Witness ==
    /\ pc = "run_returned"
    /\ out.op = "market_research.run"
    /\ IsRaised(out.result)
    /\ Len(result.errors) = 1
    /\ result.errors[1].phase = "Market research error"
    /\ ~result.market_research_complete
    /\ ~result.data_extraction_complete
    /\ ~result.pricing_complete
    /\ result.final_recommendation = None
    /\ result.competitor_prices = <<>>
    /\ result.completed_at # None

====
